---- MODULE Spec2Model ----
(***************************************************************************)
(* A model of the hornet-base database engine: the transaction manager     *)
(* (pkg/concurrency/transaction.go), the recovery manager and the B+-tree  *)
(* cursor (unnamed/part_000).                                              *)
(***************************************************************************)
EXTENDS Integers, Sequences, FiniteSets, TLC

(***************************************************************************)
(* Bounds of the transaction-manager model.                                *)
(***************************************************************************)
MaxOps == 6

\* the clients A and B of the spec's scenarios
Tx == {1, 2}

\* the resources are the keys 5 and 6 of one table
Res == {5, 6}

R_LOCK == "R"
W_LOCK == "W"
NoLock == "none"
LockTypes == {R_LOCK, W_LOCK}

VARIABLES
  transactions,   \* tm.transactions: the client ids that have a live Transaction
  epoch,          \* epoch[t]: how many Transaction objects Begin has made for t
  resources,      \* resources[t][r]: the resource map of t's current Transaction
  pGraph,         \* tm.pGraph: edges <<from, to>> between Transaction objects
  lm,             \* tm.lm: per resource the mode, holder count and FIFO queue
  pc,             \* pc[t]: where client t's goroutine is inside Lock
  dep,            \* dep[t]: Lock's local depTransactions
  ranged,        \* ranged[t]: the resources the range of t's Commit has got to
  last,           \* last[t]: the last call of t, its arguments and its result
  ops             \* the number of calls made so far

tmVars == <<transactions, epoch, resources, pGraph, lm, pc, dep, ranged, last,
            ops>>

\* the part of the transaction manager the recovery manager never touches
tmOnly == <<pc, last, ops>>

\* and the part it works on
tmState == <<transactions, epoch, resources, lm, pGraph, dep, ranged>>

(***************************************************************************)
(* Bounds and value sets of the recovery model.                            *)
(***************************************************************************)
MaxLog == 4

\* keys and values of the one table; its keys are the lockable resources
Key == Res
Absent == 0

\* the clients of the recovery scenarios
Client == {1, 2}
Untouched == 0 - 1

VARIABLES
  db,             \* the table: key -> value or Absent
  snap,           \* the table as copied to the -recovery folder by Delta
  rlog,           \* the log file, a sequence of records
  txStack,        \* rm.txStack: client id -> record stack or NoStack
  phase,          \* "run"; after Recover "done", or "hung" if it never returns
  activeTxs,      \* Recover's activeTxs
  crashLen,       \* len(logs) as read by readLogs
  preT,           \* history: what each key held before the live transaction
                  \* of a client first edited it
  rlast,          \* what the command just run returned, for Rollback and Recover
  cl,             \* per client: the call it is in and where it is in that call
  ckpt            \* Checkpoint: whether it is in flight, and what it flushed

recVars == <<db, snap, rlog, txStack, phase, activeTxs, crashLen, preT, rlast,
             cl, ckpt>>

(***************************************************************************)
(* B+-tree cursor: bounds and state.                                       *)
(***************************************************************************)
MaxKey == 4
LeafCap == 3

BKey == 1..MaxKey

VARIABLES
  leafKeys,       \* page number -> the sorted keys of the leaf on that page
  rightSib,       \* page number -> rightSiblingPN, -1 at the rightmost leaf
  seps,           \* the root's keys with the child page right of each
  rdLatch,        \* page number -> readers holding the page's latch
  cursor,         \* the client's BTreeCursor
  cstate,         \* "ok", "blocked" on a latch for ever, "crashed"
  ret,            \* what the last call returned
  trav,           \* where the client is in a TableStart traversal
  seen,        \* the keys GetEntry returned since TableStart
  present,        \* the keys inserted and not deleted
  pins            \* page number -> pin count of the leaf page in the pager

btVars == <<leafKeys, rightSib, seps, rdLatch, cursor, cstate, ret, trav,
            seen, present, pins>>

\* ---- Grace hash join (pkg/query) ----
\* ChanCap stands for the capacity of the results channel (1024 in the code),
\* BucketCap for the number of entries a hash bucket holds, MaxDepth caps the
\* global depth of a temporary hash index.
ChanCap == 1
BucketCap == 1
MaxDepth == 1
JKey == {1, 2}
JVal == {1, 2}

VARIABLES
  jcall,     \* the arguments of the Join call, or NoJoin before the call
  jprobes,   \* one record per probe goroutine: pairs still to send, status
  jchan,     \* resultsChan: the buffered pairs
  jctx,      \* the join context: "live" or "cancelled"
  jout       \* the pairs a consumer has received from resultsChan

joinVars == <<jcall, jprobes, jchan, jctx, jout>>

\* ---- Redo applied to a table in any state ----
VARIABLES
  redone     \* the last Redo call: its record, the table before, its error

\* ---- Checkpoint step by step, with concurrent page updates ----
NumTables == 3
MaxCk == 2
CkTable == 1..NumTables

VARIABLES
  ckpc,        \* where Checkpoint is: "idle", "lock", "flush", "unlock", "record"
  cki,         \* the table of the current iteration of Checkpoint's loop
  allUpdates,  \* per table: TRUE while Checkpoint holds the pager's all-updates lock
  dirty,       \* per table: TRUE when a page was updated since the last flush
  ckRecs       \* the number of checkpoint records written

ckVars == <<ckpc, cki, allUpdates, dirty, ckRecs>>

\* ---- The doubly linked list (pkg/list) ----
MaxLinks == 6
Nil == 0

VARIABLES
  lhead,     \* list.head: a link, or Nil
  ltail,     \* list.tail: a link, or Nil
  links,     \* the links allocated so far, by number: list, prev, next, value
  lseq       \* the sequence the list stands for: the links in order

listVars == <<lhead, ltail, links, lseq>>

\* ---- tm.tmMtx, the transaction manager's reader-writer mutex ----
NumThreads == 2
Thread == 1..NumThreads
NoThread == 0

VARIABLES
  mpc,       \* per goroutine: the call it is in and where it is in that call
  readers,   \* how many read holds tmMtx has
  pending,   \* the goroutine that has announced or holds the write side
  wheld      \* TRUE while the write side of tmMtx is held

mtxVars == <<mpc, readers, pending, wheld>>

\* ---- The Bloom filter (pkg/query) ----
\* FilterSize caps the size given to CreateFilter, MaxBloomKey the keys.
FilterSize == 2
MaxBloomKey == 2
BloomKey == 1..MaxBloomKey

VARIABLES
  bsize,     \* filter.size, 0 before CreateFilter
  bits,      \* filter.bits: the positions that are set
  bhash,     \* the two hash functions, key -> position below filter.size
  bkeys,     \* the keys Insert was called with
  bret       \* the last Contains call: its key and its result

bloomVars == <<bsize, bits, bhash, bkeys, bret>>

lateVars == <<mtxVars, bloomVars>>

auxVars == <<joinVars, redone, ckVars, listVars, lateVars>>

notJoin == <<tmVars, recVars, btVars, redone, ckVars, listVars, lateVars>>

notCk == <<tmVars, recVars, btVars, joinVars, redone, listVars, lateVars>>

notList == <<tmVars, recVars, btVars, joinVars, redone, ckVars, lateVars>>

notMtx == <<tmVars, recVars, btVars, joinVars, redone, ckVars, listVars,
           bloomVars>>

notBloom == <<tmVars, recVars, btVars, joinVars, redone, ckVars, listVars,
             mtxVars>>

vars == <<tmVars, recVars, btVars, auxVars>>

(***************************************************************************)
(* Transaction objects.  The graph is keyed by *Transaction, so a client   *)
(* that commits and begins again is a different node.                      *)
(***************************************************************************)
Node(t) == <<t, epoch[t]>>

NoResources == [r \in Res |-> NoLock]

NoCall == [op |-> "none", r |-> 0, m |-> NoLock, res |-> "none"]

Call(op, r, m, res) == [op |-> op, r |-> r, m |-> m, res |-> res]

(***************************************************************************)
(* Lock manager (spec section 4.4): a mode, a holder count and a FIFO      *)
(* queue of waiting requests per resource.  The lock manager is oblivious  *)
(* to transactions; the tx in a queue entry is the waiting goroutine.      *)
(***************************************************************************)
LmFree == [mode |-> NoLock, count |-> 0, queue |-> <<>>]

LmCompatible(l, m) == l.mode = NoLock \/ (l.mode = R_LOCK /\ m = R_LOCK)

LmCanGrant(l, m) == l.queue = <<>> /\ LmCompatible(l, m)

LmGrant(l, m) == [l EXCEPT !.mode = m, !.count = @ + 1]

LmEnqueue(l, t, m) == [l EXCEPT !.queue = Append(@, [tx |-> t, m |-> m])]

RECURSIVE LmGrantQueue(_)
LmGrantQueue(l) ==
  IF l.queue # <<>> /\ LmCompatible(l, Head(l.queue).m)
  THEN LmGrantQueue([LmGrant(l, Head(l.queue).m) EXCEPT !.queue = Tail(l.queue)])
  ELSE l

LmUnlockOk(l, m) == l.count > 0 /\ l.mode = m

LmRelease(l) ==
  LmGrantQueue([l EXCEPT !.count = @ - 1,
                         !.mode = IF l.count = 1 THEN NoLock ELSE @])

QueueTx(l) == {l.queue[i].tx : i \in 1..Len(l.queue)}

\* the goroutines whose lm.Lock returns when lock state l becomes l2
Woken(l, l2) == QueueTx(l) \ QueueTx(l2)

(***************************************************************************)
(* Waits-for graph (Graph is not part of the sources; spec section 4.5).   *)
(***************************************************************************)
Succ(g, n) == {e[2] : e \in {f \in g : f[1] = n}}

RECURSIVE ReachFrom(_, _, _)
ReachFrom(g, visited, frontier) ==
  IF frontier = {} THEN visited
  ELSE LET new == UNION {Succ(g, n) : n \in frontier} \ visited
       IN ReachFrom(g, visited \cup new, new)

DetectCycle(g) == \E e \in g : e[1] \in ReachFrom(g, {}, {e[1]})

AddEdges(g, from, tos) == g \cup {<<from, u>> : u \in tos}

RemoveEdges(g, from, tos) == g \ {<<from, u>> : u \in tos}

(***************************************************************************)
(* discoverTransactions: every live transaction whose resource map has r   *)
(* and where the stored or the requested mode is a write.                  *)
(***************************************************************************)
discoverTransactions(r, lType) ==
  {Node(u) : u \in {v \in transactions :
       resources[v][r] # NoLock /\ (resources[v][r] = W_LOCK \/ lType = W_LOCK)}}

(***************************************************************************)
(* tm.tmMtx: Commit holds it for writing from its first line to its        *)
(* return; Begin takes it for writing, Lock and Unlock for reading while   *)
(* they look the transaction up.                                           *)
(***************************************************************************)
TmMtxFree == \A u \in Tx : pc[u] # "commit"

(***************************************************************************)
(* TransactionManager.Begin                                                *)
(***************************************************************************)
\* Begin replacing a live transaction by a fresh one
Begin_Restart(t) ==
  /\ pc[t] = "idle"
  /\ TmMtxFree
  /\ ops < MaxOps
  /\ ops' = ops + 1
  /\ transactions' = transactions \cup {t}
  /\ epoch' = [epoch EXCEPT ![t] = @ + 1]
  /\ resources' = [resources EXCEPT ![t] = NoResources]
  /\ last' = [last EXCEPT ![t] = Call("Begin", 0, NoLock, "ok")]
  /\ UNCHANGED <<pGraph, lm, pc, dep>>
  /\ UNCHANGED <<ranged, recVars, btVars, auxVars>>

\* some other goroutine is ranging over tm.transactions in
\* discoverTransactions, which holds no tmMtx: a write of the map by t races
\* with it
MapRace(t) == \E u \in Tx \ {t} : pc[u] = "discover"

\* the Go runtime found the map written while it was ranged over ("fatal
\* error: concurrent map iteration and map write"): the process is gone with
\* its maps, its lock table and its graph, and no call of it returns
Fatal ==
  /\ pc' = [t \in Tx |-> "fatal"]
  /\ transactions' = {}
  /\ resources' = [t \in Tx |-> NoResources]
  /\ lm' = [r \in Res |-> LmFree]
  /\ pGraph' = {}
  /\ dep' = [t \in Tx |-> {}]
  /\ ranged' = [t \in Tx |-> {}]
  /\ UNCHANGED <<epoch, last>>

\* line 87 writes the map; when the write races with a range over the map,
\* the write goes through or the runtime aborts the process
Begin(t) ==
  /\ pc[t] = "idle"
  /\ TmMtxFree
  /\ ops < MaxOps
  /\ ops' = ops + 1
  /\ IF t \in transactions
     THEN /\ last' = [last EXCEPT ![t] = Call("Begin", 0, NoLock, "err")]
          /\ UNCHANGED <<transactions, epoch, resources, pGraph, lm, pc, dep,
                         ranged>>
     ELSE \/ /\ transactions' = transactions \cup {t}
             /\ epoch' = [epoch EXCEPT ![t] = @ + 1]
             /\ resources' = [resources EXCEPT ![t] = NoResources]
             /\ last' = [last EXCEPT ![t] = Call("Begin", 0, NoLock, "ok")]
             /\ UNCHANGED <<pGraph, lm, pc, dep, ranged>>
          \/ MapRace(t) /\ Fatal
  /\ UNCHANGED <<recVars, btVars, auxVars>>

(***************************************************************************)
(* TransactionManager.Lock, one action per step between which other        *)
(* goroutines can run (Lock holds tmMtx only while it looks the            *)
(* transaction up).                                                        *)
(***************************************************************************)
\* LockStart without the check of the caller's own resource map
LockStart_NoOwnCheck(t, r, lType) ==
  /\ pc[t] = "idle"
  /\ TmMtxFree
  /\ ops < MaxOps
  /\ ops' = ops + 1
  /\ IF t \notin transactions
     THEN /\ last' = [last EXCEPT ![t] = Call("Lock", r, lType, "notfound")]
          /\ UNCHANGED <<pc, dep>>
     ELSE /\ pc' = [pc EXCEPT ![t] = "discover"]
          /\ last' = [last EXCEPT ![t] = Call("Lock", r, lType, "pending")]
          /\ UNCHANGED dep
  /\ UNCHANGED <<transactions, epoch, resources, pGraph, lm>>
  /\ UNCHANGED <<ranged, recVars, btVars, auxVars>>

\* lines 93-110: look the transaction up and check its own map
LockStart(t, r, lType) ==
  /\ pc[t] = "idle"
  /\ TmMtxFree
  /\ ops < MaxOps
  /\ ops' = ops + 1
  /\ IF t \notin transactions
     THEN /\ last' = [last EXCEPT ![t] = Call("Lock", r, lType, "notfound")]
          /\ UNCHANGED <<pc, dep>>
     ELSE IF resources[t][r] # NoLock
     THEN /\ last' = [last EXCEPT ![t] =
                 Call("Lock", r, lType,
                      IF resources[t][r] = R_LOCK /\ lType = W_LOCK
                      THEN "norights" ELSE "ok")]
          /\ UNCHANGED <<pc, dep>>
     ELSE /\ pc' = [pc EXCEPT ![t] = "discover"]
          /\ last' = [last EXCEPT ![t] = Call("Lock", r, lType, "pending")]
          /\ UNCHANGED dep
  /\ UNCHANGED <<transactions, epoch, resources, pGraph, lm>>
  /\ UNCHANGED <<ranged, recVars, btVars, auxVars>>

\* line 112: range over the live transactions, with no tmMtx held
LockDiscover(t) ==
  /\ pc[t] = "discover"
  /\ dep' = [dep EXCEPT ![t] = discoverTransactions(last[t].r, last[t].m)]
  /\ pc' = [pc EXCEPT ![t] = "addEdge"]
  /\ UNCHANGED <<transactions, epoch, resources, pGraph, lm, last, ops>>
  /\ UNCHANGED <<ranged, recVars, btVars, auxVars>>

\* lines 114-116
LockAddEdges(t) ==
  /\ pc[t] = "addEdge"
  /\ pGraph' = AddEdges(pGraph, Node(t), dep[t])
  /\ pc' = [pc EXCEPT ![t] = "detect"]
  /\ UNCHANGED <<transactions, epoch, resources, lm, dep, last, ops>>
  /\ UNCHANGED <<ranged, recVars, btVars, auxVars>>

\* line 118: DetectCycle looks at the graph as it is now, with the edges of
\* every request that is between its AddEdge and its RemoveEdge
LockDetect(t) ==
  /\ pc[t] = "detect"
  /\ pc' = [pc EXCEPT ![t] = IF DetectCycle(pGraph) THEN "unwind" ELSE "record"]
  /\ UNCHANGED <<transactions, epoch, resources, pGraph, lm, dep, last, ops>>
  /\ UNCHANGED <<ranged, recVars, btVars, auxVars>>

\* LockUnwind that rejects the request but leaves its edges in the graph
LockUnwind_KeepEdges(t) ==
  /\ pc[t] = "unwind"
  /\ pc' = [pc EXCEPT ![t] = "idle"]
  /\ dep' = [dep EXCEPT ![t] = {}]
  /\ last' = [last EXCEPT ![t].res = "deadlock"]
  /\ UNCHANGED <<transactions, epoch, resources, pGraph, lm, ops>>
  /\ UNCHANGED <<ranged, recVars, btVars, auxVars>>

\* lines 119-123: the edges of the request are taken out again and the
\* deadlock error is returned
LockUnwind(t) ==
  /\ pc[t] = "unwind"
  /\ pGraph' = RemoveEdges(pGraph, Node(t), dep[t])
  /\ pc' = [pc EXCEPT ![t] = "idle"]
  /\ dep' = [dep EXCEPT ![t] = {}]
  /\ last' = [last EXCEPT ![t].res = "deadlock"]
  /\ UNCHANGED <<transactions, epoch, resources, lm, ops>>
  /\ UNCHANGED <<ranged, recVars, btVars, auxVars>>

\* lines 126-128: the resource is recorded before the lock manager is asked
LockRecord(t) ==
  /\ pc[t] = "record"
  /\ resources' = [resources EXCEPT ![t][last[t].r] = last[t].m]
  /\ pc' = [pc EXCEPT ![t] = "lmLock"]
  /\ UNCHANGED <<transactions, epoch, pGraph, lm, dep, last, ops>>
  /\ UNCHANGED <<ranged, recVars, btVars, auxVars>>

\* LockAcquire that returns without asking the lock manager
LockAcquire_NoLm(t) ==
  /\ pc[t] = "lmLock"
  /\ pc' = [pc EXCEPT ![t] = "rmEdge"]
  /\ UNCHANGED <<transactions, epoch, resources, pGraph, lm, dep, last, ops>>
  /\ UNCHANGED <<ranged, recVars, btVars, auxVars>>

\* line 130: tm.lm.Lock either returns at once or parks the goroutine
LockAcquire(t) ==
  /\ pc[t] = "lmLock"
  /\ LET r == last[t].r
         m == last[t].m
     IN IF LmCanGrant(lm[r], m)
        THEN /\ lm' = [lm EXCEPT ![r] = LmGrant(@, m)]
             /\ pc' = [pc EXCEPT ![t] = "rmEdge"]
        ELSE /\ lm' = [lm EXCEPT ![r] = LmEnqueue(@, t, m)]
             /\ pc' = [pc EXCEPT ![t] = "blocked"]
  /\ UNCHANGED <<transactions, epoch, resources, pGraph, dep, last, ops>>
  /\ UNCHANGED <<ranged, recVars, btVars, auxVars>>

\* lines 133-136
LockRemoveEdges(t) ==
  /\ pc[t] = "rmEdge"
  /\ pGraph' = RemoveEdges(pGraph, Node(t), dep[t])
  /\ pc' = [pc EXCEPT ![t] = "idle"]
  /\ dep' = [dep EXCEPT ![t] = {}]
  /\ last' = [last EXCEPT ![t].res = "ok"]
  /\ UNCHANGED <<transactions, epoch, resources, lm, ops>>
  /\ UNCHANGED <<ranged, recVars, btVars, auxVars>>

\* the goroutines parked in lm.Lock that a release lets through
Wake(newLm) ==
  [u \in Tx |-> IF \E r \in Res : u \in Woken(lm[r], newLm[r])
                THEN "rmEdge" ELSE pc[u]]

(***************************************************************************)
(* TransactionManager.Unlock                                               *)
(***************************************************************************)
\* Unlock without the check that the given mode is the recorded one
Unlock_AnyMode(t, r, lType) ==
  /\ pc[t] = "idle"
  /\ TmMtxFree
  /\ ops < MaxOps
  /\ ops' = ops + 1
  /\ IF t \notin transactions
     THEN /\ last' = [last EXCEPT ![t] = Call("Unlock", r, lType, "notfound")]
          /\ UNCHANGED <<resources, pc>>
     ELSE IF resources[t][r] = NoLock
     THEN /\ last' = [last EXCEPT ![t] = Call("Unlock", r, lType, "noresource")]
          /\ UNCHANGED <<resources, pc>>
     ELSE /\ resources' = [resources EXCEPT ![t][r] = NoLock]
          /\ pc' = [pc EXCEPT ![t] = "lmUnlock"]
          /\ last' = [last EXCEPT ![t] = Call("Unlock", r, lType, "pending")]
  /\ UNCHANGED <<transactions, epoch, pGraph, lm, dep>>
  /\ UNCHANGED <<ranged, recVars, btVars, auxVars>>

\* lines 140-162: the checks, then the entry is deleted from the
\* transaction's map under its write lock
Unlock(t, r, lType) ==
  /\ pc[t] = "idle"
  /\ TmMtxFree
  /\ ops < MaxOps
  /\ ops' = ops + 1
  /\ IF t \notin transactions
     THEN /\ last' = [last EXCEPT ![t] = Call("Unlock", r, lType, "notfound")]
          /\ UNCHANGED <<resources, pc>>
     ELSE IF resources[t][r] = NoLock
     THEN /\ last' = [last EXCEPT ![t] = Call("Unlock", r, lType, "noresource")]
          /\ UNCHANGED <<resources, pc>>
     ELSE IF resources[t][r] # lType
     THEN /\ last' = [last EXCEPT ![t] = Call("Unlock", r, lType, "mismatch")]
          /\ UNCHANGED <<resources, pc>>
     ELSE /\ resources' = [resources EXCEPT ![t][r] = NoLock]
          /\ pc' = [pc EXCEPT ![t] = "lmUnlock"]
          /\ last' = [last EXCEPT ![t] = Call("Unlock", r, lType, "pending")]
  /\ UNCHANGED <<transactions, epoch, pGraph, lm, dep>>
  /\ UNCHANGED <<ranged, recVars, btVars, auxVars>>

\* line 163: the lock manager releases the lock, after the map entry is gone
UnlockRelease(t) ==
  /\ pc[t] = "lmUnlock"
  /\ IF LmUnlockOk(lm[last[t].r], last[t].m)
     THEN /\ lm' = [lm EXCEPT ![last[t].r] = LmRelease(@)]
          /\ pc' = [Wake(lm') EXCEPT ![t] = "idle"]
          /\ last' = [last EXCEPT ![t].res = "ok"]
     ELSE /\ pc' = [pc EXCEPT ![t] = "idle"]
          /\ last' = [last EXCEPT ![t].res = "err"]
          /\ UNCHANGED lm
  /\ UNCHANGED <<transactions, epoch, resources, pGraph, dep, ops>>
  /\ UNCHANGED <<ranged, recVars, btVars, auxVars>>

(***************************************************************************)
(* TransactionManager.Commit                                               *)
(***************************************************************************)
HeldRes(t) == {r \in Res : resources[t][r] # NoLock}

\* Commit that forgets the transaction without releasing its locks
Commit_KeepLocks(t) ==
  /\ pc[t] = "idle"
  /\ TmMtxFree
  /\ ops < MaxOps
  /\ ops' = ops + 1
  /\ IF t \notin transactions
     THEN /\ last' = [last EXCEPT ![t] = Call("Commit", 0, NoLock, "err")]
          /\ UNCHANGED transactions
     ELSE /\ transactions' = transactions \ {t}
          /\ last' = [last EXCEPT ![t] = Call("Commit", 0, NoLock, "ok")]
  /\ UNCHANGED <<epoch, resources, pGraph, dep, lm, pc, ranged>>
  /\ UNCHANGED <<recVars, btVars, auxVars>>

\* lines 167-177: tmMtx is taken for writing and the transaction looked up
Commit(t) ==
  /\ pc[t] = "idle"
  /\ TmMtxFree
  /\ ops < MaxOps
  /\ ops' = ops + 1
  /\ IF t \notin transactions
     THEN /\ last' = [last EXCEPT ![t] = Call("Commit", 0, NoLock, "err")]
          /\ UNCHANGED pc
     ELSE /\ last' = [last EXCEPT ![t] = Call("Commit", 0, NoLock, "pending")]
          /\ pc' = [pc EXCEPT ![t] = "commit"]
  /\ UNCHANGED <<transactions, epoch, resources, pGraph, lm, dep, ranged>>
  /\ UNCHANGED <<recVars, btVars, auxVars>>

\* lines 178-183, one turn of the range over the transaction's resource map,
\* in any order: the lock manager releases the lock, which lets the requests
\* parked behind it through, or fails, and Commit returns its error with the
\* transaction still there
CommitUnlock(t) ==
  /\ pc[t] = "commit"
  /\ \E r \in HeldRes(t) \ ranged[t] :
       IF LmUnlockOk(lm[r], resources[t][r])
       THEN /\ lm' = [lm EXCEPT ![r] = LmRelease(@)]
            /\ pc' = Wake(lm')
            /\ ranged' = [ranged EXCEPT ![t] = @ \cup {r}]
            /\ UNCHANGED last
       ELSE /\ pc' = [pc EXCEPT ![t] = "idle"]
            /\ ranged' = [ranged EXCEPT ![t] = {}]
            /\ last' = [last EXCEPT ![t].res = "unlockerr"]
            /\ UNCHANGED lm
  /\ UNCHANGED <<transactions, epoch, resources, pGraph, dep, ops>>
  /\ UNCHANGED <<recVars, btVars, auxVars>>

\* lines 185-186: the transaction is deleted from the map; when the delete
\* races with a range over the map, it goes through or the runtime aborts
\* the process
CommitDelete(t) ==
  /\ pc[t] = "commit"
  /\ HeldRes(t) \ ranged[t] = {}
  /\ \/ /\ transactions' = transactions \ {t}
        /\ resources' = [resources EXCEPT ![t] = NoResources]
        /\ ranged' = [ranged EXCEPT ![t] = {}]
        /\ pc' = [pc EXCEPT ![t] = "idle"]
        /\ last' = [last EXCEPT ![t].res = "ok"]
        /\ UNCHANGED <<epoch, pGraph, lm, dep>>
     \/ MapRace(t) /\ Fatal
  /\ UNCHANGED <<ops, recVars, btVars, auxVars>>

(***************************************************************************)
(* The transaction manager under concurrent clients.                       *)
(***************************************************************************)
TMInit ==
  /\ transactions = {}
  /\ epoch = [t \in Tx |-> 0]
  /\ resources = [t \in Tx |-> NoResources]
  /\ pGraph = {}
  /\ lm = [r \in Res |-> LmFree]
  /\ pc = [t \in Tx |-> "idle"]
  /\ dep = [t \in Tx |-> {}]
  /\ ranged = [t \in Tx |-> {}]
  /\ last = [t \in Tx |-> NoCall]
  /\ ops = 0

(***************************************************************************)
(* Recovery manager.  Log records (one shape for all kinds).               *)
(***************************************************************************)
INSERT_ACTION == "insert"
UPDATE_ACTION == "update"
DELETE_ACTION == "delete"
Actions == {INSERT_ACTION, UPDATE_ACTION, DELETE_ACTION}

Rec(k, id, action, key, old, new, ids) ==
  [k |-> k, id |-> id, action |-> action, key |-> key, old |-> old,
   new |-> new, ids |-> ids]

startLog(id) == Rec("start", id, "none", 0, Absent, Absent, {})
commitLog(id) == Rec("commit", id, "none", 0, Absent, Absent, {})
editLog(id, action, key, old, new) == Rec("edit", id, action, key, old, new, {})
checkpointLog(ids) == Rec("checkpoint", 0, "none", 0, Absent, Absent, ids)
nilLog == Rec("nil", 0, "none", 0, Absent, Absent, {})
tableLog == Rec("table", 0, "none", 0, Absent, Absent, {})

NoResult == <<"none", 0, "none">>

\* the value of txStack for a client id that is not a key of the map
NoStack == <<Rec("nostack", 0, "none", 0, Absent, Absent, {})>>

EmptyDb == [k \in Key |-> Absent]

\* the database without the table: no key holds anything, not even Absent
NoTable == [k \in Key |-> Untouched]

\* a client that has no call in flight
NoClient ==
  [at |-> "idle", action |-> "none", key |-> 0, val |-> Absent, out |-> FALSE,
   rb |-> FALSE, logs |-> <<>>, i |-> 0]

\* no Checkpoint call is in flight
NoCheckpoint == [on |-> FALSE, at |-> "off", disk |-> NoTable]

NoTouch == [k \in Key |-> Untouched]

(***************************************************************************)
(* Recover, the only goroutine of a starting server, calls the database,   *)
(* the transaction manager and the recovery manager in sequence; S is the  *)
(* state all of these calls work on: the table, the log file, txStack, the *)
(* transactions with their resource maps, the lock manager, the waits-for  *)
(* graph and the depTransactions of a Lock call that has not returned.     *)
(* ord is the order in which a range over a resource map visits the        *)
(* resources.                                                              *)
(***************************************************************************)
ResOrders ==
  {s \in [1..Cardinality(Res) -> Res] : \A i, j \in DOMAIN s : s[i] = s[j] => i = j}

State(d, l, st, tx, res, lk, g, dp, ord) ==
  [db |-> d, log |-> l, stack |-> st, tx |-> tx, res |-> res, lm |-> lk,
   graph |-> g, dep |-> dp, active |-> {}, err |-> FALSE, hung |-> FALSE,
   ord |-> ord]

Here(ord) ==
  State(db, rlog, txStack, transactions, resources, lm, pGraph, dep, ord)

\* writeToBuffer
writeToBuffer(S, rec) == [S EXCEPT !.log = Append(@, rec)]

\* RecoveryManager.Edit: append to the file, push on the client's stack (a
\* missing map entry is the nil slice)
RmEdit(S, id, action, key, old, new) ==
  LET el == editLog(id, action, key, old, new)
  IN [writeToBuffer(S, el) EXCEPT
        !.stack[id] = IF @ = NoStack THEN <<el>> ELSE Append(@, el)]

\* RecoveryManager.Start: make([]Log, 1) is one nil entry, then the start log
RmStart(S, id) ==
  [writeToBuffer(S, startLog(id)) EXCEPT !.stack[id] = <<nilLog, startLog(id)>>]

\* RecoveryManager.Commit
RmCommit(S, id) ==
  [writeToBuffer(S, commitLog(id)) EXCEPT !.stack[id] = NoStack]

\* TransactionManager.Begin, called in sequence
TmBegin(S, id) ==
  IF id \in S.tx THEN [S EXCEPT !.err = TRUE]
  ELSE [S EXCEPT !.tx = @ \cup {id}, !.res[id] = NoResources, !.err = FALSE]

\* the loop of Commit over the transaction's resource map, lines 179-184:
\* the first lm.Unlock that fails ends it
RECURSIVE CommitLoop(_, _, _)
CommitLoop(S, id, i) ==
  IF i > Len(S.ord) THEN [S EXCEPT !.err = FALSE]
  ELSE IF S.res[id][S.ord[i]] = NoLock THEN CommitLoop(S, id, i + 1)
  ELSE IF LmUnlockOk(S.lm[S.ord[i]], S.res[id][S.ord[i]])
  THEN CommitLoop([S EXCEPT !.lm[S.ord[i]] = LmRelease(@)], id, i + 1)
  ELSE [S EXCEPT !.err = TRUE]

\* TransactionManager.Commit, called in sequence: when an lm.Unlock fails,
\* the error is returned and the transaction stays
TmCommit(S, id) ==
  IF id \notin S.tx THEN [S EXCEPT !.err = TRUE]
  ELSE LET U == CommitLoop(S, id, 1)
       IN IF U.err THEN U
          ELSE [U EXCEPT !.tx = @ \ {id},
                         !.res = [t \in Tx |-> IF t = id THEN NoResources
                                               ELSE U.res[t]]]

\* discoverTransactions, lines 190-203, on the transactions of S
discoverIn(S, r, lType) ==
  {Node(u) : u \in {v \in S.tx :
       S.res[v][r] # NoLock /\ (S.res[v][r] = W_LOCK \/ lType = W_LOCK)}}

\* TransactionManager.Lock, lines 93-136, called in sequence by Recover,
\* the only goroutine of a starting server: an unknown transaction and a
\* cycle are errors; the edges to the transactions that have the resource in
\* their maps are added, the resource is recorded and the lock manager is
\* asked; a request it cannot grant is enqueued and never returns, with its
\* edges left in the graph
TmLock(S, id, r, lType) ==
  IF id \notin S.tx THEN [S EXCEPT !.err = TRUE]
  ELSE IF S.res[id][r] # NoLock
  THEN [S EXCEPT !.err = (S.res[id][r] = R_LOCK /\ lType = W_LOCK)]
  ELSE LET deps == discoverIn(S, r, lType)
           g == AddEdges(S.graph, Node(id), deps)
       IN IF DetectCycle(g)
          THEN [S EXCEPT !.graph = RemoveEdges(g, Node(id), deps), !.err = TRUE]
          ELSE IF LmCanGrant(S.lm[r], lType)
          THEN [S EXCEPT !.res[id][r] = lType, !.lm[r] = LmGrant(@, lType),
                         !.graph = RemoveEdges(g, Node(id), deps),
                         !.err = FALSE]
          ELSE [S EXCEPT !.res[id][r] = lType,
                         !.lm[r] = LmEnqueue(@, id, lType),
                         !.graph = g, !.dep[id] = deps, !.hung = TRUE]

(***************************************************************************)
(* The table operations (spec section 4.2): Insert fails on a present key, *)
(* Update and Delete on an absent one, and all three on a table that does  *)
(* not exist.                                                              *)
(***************************************************************************)
DbCan(d, action, key) ==
  /\ d # NoTable
  /\ IF action = INSERT_ACTION THEN d[key] = Absent ELSE d[key] # Absent

DbApply(d, action, key, val) ==
  [d EXCEPT ![key] = IF action = DELETE_ACTION THEN Absent ELSE val]

(***************************************************************************)
(* HandleInsert / HandleUpdate / HandleDelete of the recovery package      *)
(* (spec sections 2 and 4.6): (a) the write lock of the key is taken       *)
(* through the transaction manager, with TransactionManager.Lock for the   *)
(* client's id, and its error ends the call; (b) the edit is logged;       *)
(* (c) it is applied to the table.                                         *)
(***************************************************************************)
\* (b): the edit is looked up in the table and logged
HandleLog(S, id, action, key, val) ==
  IF ~DbCan(S.db, action, key) THEN [S EXCEPT !.err = TRUE]
  ELSE [RmEdit(S, id, action, key, S.db[key],
               IF action = DELETE_ACTION THEN Absent ELSE val)
          EXCEPT !.err = FALSE]

\* (c): the table is changed
HandleApply(S, action, key, val) ==
  [S EXCEPT !.db = DbApply(S.db, action, key, val), !.err = FALSE]

\* the three steps in sequence, with no other goroutine running
HandleEdit(S, id, action, key, val) ==
  LET L == TmLock(S, id, key, W_LOCK)
      G == HandleLog(L, id, action, key, val)
  IN IF L.err \/ L.hung THEN L
     ELSE IF G.err THEN G
     ELSE HandleApply(G, action, key, val)

(***************************************************************************)
(* RecoveryManager.Redo of a table log or an edit log                      *)
(***************************************************************************)
DbTry(S, action, key, val) ==
  IF DbCan(S.db, action, key)
  THEN [S EXCEPT !.db = DbApply(S.db, action, key, val), !.err = FALSE]
  ELSE [S EXCEPT !.err = TRUE]

\* db.HandleCreateTable: fails when the table exists
DbCreate(S) ==
  IF S.db = NoTable THEN [S EXCEPT !.db = EmptyDb, !.err = FALSE]
  ELSE [S EXCEPT !.err = TRUE]

\* Redo without the fallback of insert to update and of update to insert
Redo_NoFallback(S, log) ==
  IF log.k = "table" THEN DbCreate(S)
  ELSE IF log.k # "edit" THEN [S EXCEPT !.err = TRUE]
  ELSE DbTry(S, log.action, log.key, log.new)

Redo(S, log) ==
  IF log.k = "table" THEN DbCreate(S)
  ELSE IF log.k # "edit" THEN [S EXCEPT !.err = TRUE]
  ELSE IF log.action = INSERT_ACTION
  THEN LET A == DbTry(S, INSERT_ACTION, log.key, log.new)
       IN IF A.err THEN DbTry(S, UPDATE_ACTION, log.key, log.new) ELSE A
  ELSE IF log.action = UPDATE_ACTION
  THEN LET A == DbTry(S, UPDATE_ACTION, log.key, log.new)
       IN IF A.err THEN DbTry(S, INSERT_ACTION, log.key, log.new) ELSE A
  ELSE DbTry(S, DELETE_ACTION, log.key, Absent)

(***************************************************************************)
(* RecoveryManager.Undo: the edit that takes an edit log back              *)
(***************************************************************************)
UndoEdit(log) ==
  IF log.action = INSERT_ACTION THEN <<DELETE_ACTION, log.key, Absent>>
  ELSE IF log.action = UPDATE_ACTION THEN <<UPDATE_ACTION, log.key, log.old>>
  ELSE <<INSERT_ACTION, log.key, log.old>>

\* Undo called in sequence, by Recover
Undo(S, log) ==
  IF log.k # "edit" THEN [S EXCEPT !.err = TRUE]
  ELSE HandleEdit(S, log.id, UndoEdit(log)[1], UndoEdit(log)[2], UndoEdit(log)[3])

(***************************************************************************)
(* The clients of a running server.  Each client has one call in flight;   *)
(* cl[id] says where it is, one position per step that the goroutines of   *)
(* the other clients can run between.  A step that takes a mutex is taken  *)
(* when the mutex is free: rm.mtx is held by Checkpoint from its first     *)
(* line to its last, tm.tmMtx by tm.Commit.                                *)
(***************************************************************************)
NoCallOf(id) == cl[id].at = "idle"

MtxFree == ~ckpt.on

TmFree == \A u \in Client : cl[u].at # "tmUnlock"

\* the call of client id is on its way to a log record: it is past its
\* first step, not parked in the lock manager, and not past its last record
Writing(id) ==
  /\ cl[id].at \notin {"idle", "blocked", "tmCommit", "tmUnlock", "lmUnlock"}
  /\ cl[id].at = "apply" => cl[id].rb

\* the server takes commands: its table was created by the first command,
\* and MaxLog bounds the log records that are written after that one or on
\* their way
Running ==
  /\ phase = "run"
  /\ rlog # <<>>
  /\ Len(rlog) + Cardinality({id \in Client : Writing(id)})
       + (IF ckpt.on /\ ckpt.at = "log" THEN 1 ELSE 0) <= MaxLog

\* the server takes a Rollback, whose records come after its inverse edits
\* have their locks, while the log holds at most MaxLog records
Serving == phase = "run" /\ rlog # <<>> /\ Len(rlog) <= MaxLog

\* the client's call returns to the client
Return(id, res) ==
  /\ cl' = [cl EXCEPT ![id] = NoClient]
  /\ rlast' = res

\* another client is ranging over tm.transactions in discoverTransactions,
\* which holds no tmMtx: a write of that map by id races with it
RangeRace(id) == \E u \in Client \ {id} : cl[u].at = "discover"

\* another client is reading rm.txStack in Rollback (line 314), which holds
\* no rm.mtx: a write of that map by id races with it
StackRace(id) == \E u \in Client \ {id} : cl[u].at = "rbRead"

\* the Go runtime found a map read and written at once and aborts the
\* process: what it has in memory is gone, no call returns, and the log
\* file holds what was written to it
Abort(logs) ==
  /\ phase' = "fatal"
  /\ rlog' = logs
  /\ cl' = [id \in Client |-> NoClient]
  /\ txStack' = [t \in Tx |-> NoStack]
  /\ transactions' = {}
  /\ resources' = [t \in Tx |-> NoResources]
  /\ lm' = [r \in Res |-> LmFree]
  /\ pGraph' = {}
  /\ dep' = [t \in Tx |-> {}]
  /\ ranged' = [t \in Tx |-> {}]
  /\ UNCHANGED <<db, snap, activeTxs, crashLen, preT, rlast, ckpt, epoch>>

\* the clients parked in lm.Lock that a release lets through
WakeCl(newLm) ==
  [u \in Client |->
     IF \E r \in Res : u \in Woken(lm[r], newLm[r])
     THEN [cl[u] EXCEPT !.at = "rmEdge"]
     ELSE cl[u]]

\* a Handle call of client id returns an error: to the client, or to
\* Rollback, which returns it
Failed(id) ==
  /\ cl' = [cl EXCEPT ![id] = NoClient]
  /\ rlast' = IF cl[id].rb THEN <<"Rollback", id, "err">> ELSE rlast

\* create table: db.HandleCreateTable, and the table log of rm.Table
CreateTable ==
  /\ phase = "run"
  /\ rlog = <<>>
  /\ db = NoTable
  /\ db' = EmptyDb
  /\ rlog' = Append(rlog, tableLog)
  /\ rlast' = NoResult
  /\ UNCHANGED <<snap, txStack, phase, activeTxs, crashLen, preT, cl, ckpt>>
  /\ UNCHANGED <<tmVars, btVars, auxVars>>

\* transaction begin: tm.Begin; rm.Start follows.  Line 87 writes the map
\* of the transactions; when the write races with a range over it, it goes
\* through or the runtime aborts the process
TxBegin(id) ==
  /\ Running
  /\ NoCallOf(id)
  /\ TmFree
  /\ id \notin transactions
  /\ \/ /\ transactions' = transactions \cup {id}
        /\ epoch' = [epoch EXCEPT ![id] = @ + 1]
        /\ resources' = [t \in Tx |-> IF t = id THEN NoResources
                                      ELSE resources[t]]
        /\ cl' = [cl EXCEPT ![id].at = "start"]
        /\ rlast' = NoResult
        /\ UNCHANGED <<db, snap, rlog, txStack, phase, activeTxs, crashLen,
                       preT, ckpt, lm, pGraph, dep, ranged>>
     \/ RangeRace(id) /\ Abort(rlog)
  /\ UNCHANGED <<tmOnly, btVars, auxVars>>

\* rm.Start of a transaction begin: the start log is written, then the
\* client's stack is put into txStack
BeginStart(id) ==
  /\ phase = "run"
  /\ cl[id].at = "start"
  /\ MtxFree
  /\ LET S == RmStart(Here(<<>>), id)
     IN \/ /\ rlog' = S.log
           /\ txStack' = S.stack
           /\ preT' = [preT EXCEPT ![id] = NoTouch]
           /\ cl' = [cl EXCEPT ![id] = NoClient]
           /\ UNCHANGED <<db, snap, phase, activeTxs, crashLen, rlast, ckpt>>
           /\ UNCHANGED tmState
        \/ StackRace(id) /\ Abort(S.log)
  /\ UNCHANGED <<tmOnly, btVars, auxVars>>

(***************************************************************************)
(* Insert, update and delete: (a) TransactionManager.Lock, step by step,   *)
(* (b) the edit log, (c) the table.                                        *)
(***************************************************************************)
\* lines 93-110 of Lock for the Handle call c of client id, a write-lock
\* request: the transaction is looked up and its own map checked
LockAsk(id, c) ==
  IF id \notin transactions THEN [c EXCEPT !.at = "failed"]
  ELSE IF resources[id][c.key] = R_LOCK THEN [c EXCEPT !.at = "failed"]
  ELSE IF resources[id][c.key] = W_LOCK THEN [c EXCEPT !.at = "log"]
  ELSE [c EXCEPT !.at = "discover"]

\* the call of an edit command, up to line 110 of Lock; the error of
\* Lock ends the command
TxEdit(id, action, key, val) ==
  /\ Running
  /\ NoCallOf(id)
  /\ TmFree
  /\ LET c == LockAsk(id, [NoClient EXCEPT !.action = action, !.key = key,
                                          !.val = val])
     IN cl' = [cl EXCEPT ![id] = IF c.at = "failed" THEN NoClient ELSE c]
  /\ rlast' = NoResult
  /\ UNCHANGED <<db, snap, rlog, txStack, phase, activeTxs, crashLen, preT, ckpt>>
  /\ UNCHANGED <<tmVars, btVars, auxVars>>

\* RecoveryManager.Edit, lines 101-114, called for a client that has no
\* transaction, with the table operation that follows it (spec section 8,
\* scenario 5: an insert outside any transaction is logged and redone);
\* tm.Lock refuses such a client (lines 97-99), so the edit holds no lock
EditOutside(id, action, key, val) ==
  /\ Running
  /\ NoCallOf(id)
  /\ id \notin transactions
  /\ cl' = [cl EXCEPT ![id] = [NoClient EXCEPT !.at = "log", !.out = TRUE,
                                               !.action = action, !.key = key,
                                               !.val = val]]
  /\ rlast' = NoResult
  /\ UNCHANGED <<db, snap, rlog, txStack, phase, activeTxs, crashLen, preT, ckpt>>
  /\ UNCHANGED <<tmVars, btVars, auxVars>>

\* line 112: range over the live transactions, with no tmMtx held
EditDiscover(id) ==
  /\ phase = "run"
  /\ cl[id].at = "discover"
  /\ dep' = [dep EXCEPT ![id] = discoverTransactions(cl[id].key, W_LOCK)]
  /\ cl' = [cl EXCEPT ![id].at = "addEdge"]
  /\ UNCHANGED <<transactions, epoch, resources, lm, pGraph, ranged>>
  /\ UNCHANGED <<db, snap, rlog, txStack, phase, activeTxs, crashLen, preT,
                 rlast, ckpt>>
  /\ UNCHANGED <<tmOnly, btVars, auxVars>>

\* lines 114-116
EditAddEdges(id) ==
  /\ phase = "run"
  /\ cl[id].at = "addEdge"
  /\ pGraph' = AddEdges(pGraph, Node(id), dep[id])
  /\ cl' = [cl EXCEPT ![id].at = "detect"]
  /\ UNCHANGED <<transactions, epoch, resources, lm, dep, ranged>>
  /\ UNCHANGED <<db, snap, rlog, txStack, phase, activeTxs, crashLen, preT,
                 rlast, ckpt>>
  /\ UNCHANGED <<tmOnly, btVars, auxVars>>

\* line 118: DetectCycle looks at the graph as it is now
EditDetect(id) ==
  /\ phase = "run"
  /\ cl[id].at = "detect"
  /\ cl' = [cl EXCEPT ![id].at = IF DetectCycle(pGraph) THEN "unwind"
                                  ELSE "record"]
  /\ UNCHANGED tmState
  /\ UNCHANGED <<db, snap, rlog, txStack, phase, activeTxs, crashLen, preT,
                 rlast, ckpt>>
  /\ UNCHANGED <<tmOnly, btVars, auxVars>>

\* lines 119-123: the edges of the request are taken out again and the
\* deadlock error is returned, which ends the Handle call
EditUnwind(id) ==
  /\ phase = "run"
  /\ cl[id].at = "unwind"
  /\ pGraph' = RemoveEdges(pGraph, Node(id), dep[id])
  /\ dep' = [dep EXCEPT ![id] = {}]
  /\ Failed(id)
  /\ UNCHANGED <<transactions, epoch, resources, lm, ranged>>
  /\ UNCHANGED <<db, snap, rlog, txStack, phase, activeTxs, crashLen, preT, ckpt>>
  /\ UNCHANGED <<tmOnly, btVars, auxVars>>

\* lines 126-128: the resource is recorded before the lock manager is asked
EditRecord(id) ==
  /\ phase = "run"
  /\ cl[id].at = "record"
  /\ resources' = [t \in Tx |-> IF t = id
                     THEN [resources[id] EXCEPT ![cl[id].key] = W_LOCK]
                     ELSE resources[t]]
  /\ cl' = [cl EXCEPT ![id].at = "lmLock"]
  /\ UNCHANGED <<transactions, epoch, lm, pGraph, dep, ranged>>
  /\ UNCHANGED <<db, snap, rlog, txStack, phase, activeTxs, crashLen, preT,
                 rlast, ckpt>>
  /\ UNCHANGED <<tmOnly, btVars, auxVars>>

\* line 130: tm.lm.Lock either returns at once or parks the goroutine
EditAcquire(id) ==
  /\ phase = "run"
  /\ cl[id].at = "lmLock"
  /\ LET key == cl[id].key
     IN IF LmCanGrant(lm[key], W_LOCK)
        THEN /\ lm' = [lm EXCEPT ![key] = LmGrant(@, W_LOCK)]
             /\ cl' = [cl EXCEPT ![id].at = "rmEdge"]
        ELSE /\ lm' = [lm EXCEPT ![key] = LmEnqueue(@, id, W_LOCK)]
             /\ cl' = [cl EXCEPT ![id].at = "blocked"]
  /\ UNCHANGED <<transactions, epoch, resources, pGraph, dep, ranged>>
  /\ UNCHANGED <<db, snap, rlog, txStack, phase, activeTxs, crashLen, preT,
                 rlast, ckpt>>
  /\ UNCHANGED <<tmOnly, btVars, auxVars>>

\* lines 133-136: Lock returns
EditRemoveEdges(id) ==
  /\ phase = "run"
  /\ cl[id].at = "rmEdge"
  /\ pGraph' = RemoveEdges(pGraph, Node(id), dep[id])
  /\ dep' = [dep EXCEPT ![id] = {}]
  /\ cl' = [cl EXCEPT ![id].at = "log"]
  /\ UNCHANGED <<transactions, epoch, resources, lm, ranged>>
  /\ UNCHANGED <<db, snap, rlog, txStack, phase, activeTxs, crashLen, preT,
                 rlast, ckpt>>
  /\ UNCHANGED <<tmOnly, btVars, auxVars>>

\* (b) of an edit: rm.Edit writes the edit log and then the client's stack
\* in txStack (line 113), a write that can race with Rollback's read; an
\* edit the table cannot take fails
EditLog(id) ==
  /\ phase = "run"
  /\ cl[id].at = "log"
  /\ MtxFree
  /\ LET c == cl[id]
         G == HandleLog(Here(<<>>), id, c.action, c.key, c.val)
     IN IF G.err
        THEN /\ Failed(id)
             /\ UNCHANGED <<db, snap, rlog, txStack, phase, activeTxs, crashLen,
                            preT, ckpt>>
             /\ UNCHANGED tmState
        ELSE \/ /\ rlog' = G.log
                /\ txStack' = G.stack
                /\ preT' = [preT EXCEPT ![id][c.key] =
                              IF id \in transactions /\ @ = Untouched
                              THEN db[c.key] ELSE @]
                /\ cl' = [cl EXCEPT ![id].at = "apply"]
                /\ UNCHANGED <<db, snap, phase, activeTxs, crashLen, rlast, ckpt>>
                /\ UNCHANGED tmState
             \/ StackRace(id) /\ Abort(G.log)
  /\ UNCHANGED <<tmOnly, btVars, auxVars>>

\* the index of the next edit log of Rollback's loop at or below i, 1 when
\* there is none; the loop runs over logs[len-1 .. 1] (0-based)
RECURSIVE RollbackLoop(_, _)
RollbackLoop(logs, i) ==
  IF i < 2 THEN 1
  ELSE IF logs[i].k = "edit" THEN i
  ELSE RollbackLoop(logs, i - 1)

\* (c) of an edit, and the return of the Handle call: to the client, or to
\* Rollback's loop
EditApply(id) ==
  /\ phase = "run"
  /\ cl[id].at = "apply"
  /\ LET c == cl[id]
         back == IF c.rb
                 THEN [NoClient EXCEPT !.at = "rb", !.rb = TRUE, !.logs = c.logs,
                                       !.i = RollbackLoop(c.logs, c.i - 1)]
                 ELSE NoClient
     IN /\ db' = HandleApply(Here(<<>>), c.action, c.key, c.val).db
        /\ cl' = [cl EXCEPT ![id] = back]
  /\ UNCHANGED <<snap, rlog, txStack, phase, activeTxs, crashLen, preT, rlast, ckpt>>
  /\ UNCHANGED tmState
  /\ UNCHANGED <<tmOnly, btVars, auxVars>>

(***************************************************************************)
(* Transaction commit: rm.Commit, then tm.Commit step by step.             *)
(***************************************************************************)
\* rm.Commit: the commit log is written, then the client's stack is deleted
\* from txStack (line 136); tm.Commit follows
TxCommit(id) ==
  /\ Running
  /\ NoCallOf(id)
  /\ MtxFree
  /\ id \in transactions
  /\ LET S == RmCommit(Here(<<>>), id)
     IN \/ /\ rlog' = S.log
           /\ txStack' = S.stack
           /\ cl' = [cl EXCEPT ![id].at = "tmCommit"]
           /\ rlast' = NoResult
           /\ UNCHANGED <<db, snap, phase, activeTxs, crashLen, preT, ckpt>>
           /\ UNCHANGED tmState
        \/ StackRace(id) /\ Abort(S.log)
  /\ UNCHANGED <<tmOnly, btVars, auxVars>>

\* tm.Commit of a transaction commit or of a Rollback, lines 167-177: tmMtx
\* is taken for writing and the transaction looked up; neither caller looks
\* at the error
CommitLocks(id) ==
  /\ phase = "run"
  /\ cl[id].at = "tmCommit"
  /\ TmFree
  /\ IF id \notin transactions
     THEN Return(id, IF cl[id].rb THEN <<"Rollback", id, "ok">> ELSE NoResult)
     ELSE cl' = [cl EXCEPT ![id].at = "tmUnlock"] /\ UNCHANGED rlast
  /\ UNCHANGED <<db, snap, rlog, txStack, phase, activeTxs, crashLen, preT, ckpt>>
  /\ UNCHANGED tmState
  /\ UNCHANGED <<tmOnly, btVars, auxVars>>

\* lines 178-183, one turn of the range over the resource map, in any
\* order: the lock is released, which lets the client parked behind it
\* through, or lm.Unlock fails and tm.Commit returns with the transaction
\* still there
TxCommitUnlock(id) ==
  /\ phase = "run"
  /\ cl[id].at = "tmUnlock"
  /\ \E r \in HeldRes(id) \ ranged[id] :
       IF LmUnlockOk(lm[r], resources[id][r])
       THEN /\ lm' = [lm EXCEPT ![r] = LmRelease(@)]
            /\ cl' = WakeCl(lm')
            /\ ranged' = [ranged EXCEPT ![id] = @ \cup {r}]
            /\ UNCHANGED rlast
       ELSE /\ ranged' = [ranged EXCEPT ![id] = {}]
            /\ Return(id, IF cl[id].rb THEN <<"Rollback", id, "ok">>
                          ELSE NoResult)
            /\ UNCHANGED lm
  /\ UNCHANGED <<db, snap, rlog, txStack, phase, activeTxs, crashLen, preT, ckpt>>
  /\ UNCHANGED <<transactions, epoch, resources, pGraph, dep>>
  /\ UNCHANGED <<tmOnly, btVars, auxVars>>

\* lines 185-186: the transaction is deleted from the map, a write that can
\* race with a range over the map
TxCommitDelete(id) ==
  /\ phase = "run"
  /\ cl[id].at = "tmUnlock"
  /\ HeldRes(id) \ ranged[id] = {}
  /\ \/ /\ transactions' = transactions \ {id}
        /\ resources' = [t \in Tx |-> IF t = id THEN NoResources
                                      ELSE resources[t]]
        /\ ranged' = [ranged EXCEPT ![id] = {}]
        /\ Return(id, IF cl[id].rb THEN <<"Rollback", id, "ok">> ELSE NoResult)
        /\ UNCHANGED <<db, snap, rlog, txStack, phase, activeTxs, crashLen,
                       preT, ckpt>>
        /\ UNCHANGED <<epoch, lm, pGraph, dep>>
     \/ RangeRace(id) /\ Abort(rlog)
  /\ UNCHANGED <<tmOnly, btVars, auxVars>>

\* a client releases one of its locks with TransactionManager.Unlock, lines
\* 140-162: the checks, then the entry is deleted from the transaction's map
TxUnlock(id, key, lType) ==
  /\ Running
  /\ NoCallOf(id)
  /\ TmFree
  /\ id \in transactions
  /\ resources[id][key] # NoLock
  /\ IF resources[id][key] # lType
     THEN UNCHANGED <<resources, cl>>
     ELSE /\ resources' = [t \in Tx |-> IF t = id
                             THEN [resources[id] EXCEPT ![key] = NoLock]
                             ELSE resources[t]]
          /\ cl' = [cl EXCEPT ![id] = [NoClient EXCEPT !.at = "lmUnlock",
                                                      !.key = key,
                                                      !.action = lType]]
  /\ rlast' = NoResult
  /\ UNCHANGED <<db, snap, rlog, txStack, phase, activeTxs, crashLen, preT, ckpt>>
  /\ UNCHANGED <<transactions, epoch, lm, pGraph, dep, ranged>>
  /\ UNCHANGED <<tmOnly, btVars, auxVars>>

\* line 163: the lock manager releases the lock, after the map entry is gone
TxUnlockRelease(id) ==
  /\ phase = "run"
  /\ cl[id].at = "lmUnlock"
  /\ lm' = IF LmUnlockOk(lm[cl[id].key], cl[id].action)
           THEN [lm EXCEPT ![cl[id].key] = LmRelease(@)]
           ELSE lm
  /\ cl' = [WakeCl(lm') EXCEPT ![id] = NoClient]
  /\ rlast' = NoResult
  /\ UNCHANGED <<db, snap, rlog, txStack, phase, activeTxs, crashLen, preT, ckpt>>
  /\ UNCHANGED <<transactions, epoch, resources, pGraph, dep, ranged>>
  /\ UNCHANGED <<tmOnly, btVars, auxVars>>

(***************************************************************************)
(* RecoveryManager.Checkpoint.  rm.mtx is held from the first line to the  *)
(* last; the all-updates lock of a pager is held only while its pages are  *)
(* flushed, so a table can be changed after the flush and before Delta     *)
(* copies the files.  The process can be killed between any two steps.     *)
(***************************************************************************)
\* lines 141-149: every table is flushed
Checkpoint ==
  /\ Running
  /\ MtxFree
  /\ ckpt' = [on |-> TRUE, at |-> "log", disk |-> db]
  /\ rlast' = NoResult
  /\ UNCHANGED <<db, snap, rlog, txStack, phase, activeTxs, crashLen, preT, cl>>
  /\ UNCHANGED <<tmVars, btVars, auxVars>>

\* what the files of the database folder can hold: per key what the flush
\* wrote, or what the table holds now when the pager has written the page
\* since
DiskNow ==
  IF ckpt.disk = NoTable \/ db = NoTable THEN {ckpt.disk}
  ELSE {d \in [Key -> {ckpt.disk[k] : k \in Key} \cup {db[k] : k \in Key}] :
          \A k \in Key : d[k] \in {ckpt.disk[k], db[k]}}

\* lines 150-158: the checkpoint log with the keys of txStack is written
\* and synced
CheckpointLog ==
  /\ phase = "run"
  /\ ckpt.on
  /\ ckpt.at = "log"
  /\ rlog' = Append(rlog, checkpointLog({id \in Tx : txStack[id] # NoStack}))
  /\ ckpt' = [ckpt EXCEPT !.at = "remove"]
  /\ UNCHANGED <<db, snap, txStack, phase, activeTxs, crashLen, preT, cl, rlast>>
  /\ UNCHANGED <<tmVars, btVars, auxVars>>

\* Delta, line 371: the recovery folder is removed
DeltaRemove ==
  /\ phase = "run"
  /\ ckpt.on
  /\ ckpt.at = "remove"
  /\ snap' = NoTable
  /\ ckpt' = [ckpt EXCEPT !.at = "copy"]
  /\ UNCHANGED <<db, rlog, txStack, phase, activeTxs, crashLen, preT, cl, rlast>>
  /\ UNCHANGED <<tmVars, btVars, auxVars>>

\* Delta, line 372: the database folder is copied to the recovery folder,
\* and Checkpoint returns
DeltaCopy ==
  /\ phase = "run"
  /\ ckpt.on
  /\ ckpt.at = "copy"
  /\ snap' \in DiskNow
  /\ ckpt' = NoCheckpoint
  /\ UNCHANGED <<db, rlog, txStack, phase, activeTxs, crashLen, preT, cl, rlast>>
  /\ UNCHANGED <<tmVars, btVars, auxVars>>

(***************************************************************************)
(* RecoveryManager.Rollback.  It holds no lock of its own: it reads        *)
(* txStack without rm.mtx, every Undo is a Handle call with its steps, and *)
(* rm.Commit and tm.Commit follow.                                         *)
(***************************************************************************)
\* the call of Rollback, before line 314
Rollback(id) ==
  /\ Serving
  /\ NoCallOf(id)
  /\ cl' = [cl EXCEPT ![id] = [NoClient EXCEPT !.at = "rbRead", !.rb = TRUE]]
  /\ rlast' = NoResult
  /\ UNCHANGED <<db, snap, rlog, txStack, phase, activeTxs, crashLen, preT, ckpt>>
  /\ UNCHANGED <<tmVars, btVars, auxVars>>

\* lines 314-317: the client's stack is read from txStack, with no rm.mtx
\* held; an unknown client gets an error
RollbackRead(id) ==
  /\ phase = "run"
  /\ cl[id].at = "rbRead"
  /\ LET logs == txStack[id]
     IN IF logs = NoStack
        THEN Return(id, <<"Rollback", id, "notfound">>)
        ELSE /\ cl' = [cl EXCEPT ![id] =
                         [NoClient EXCEPT !.at = "rb", !.rb = TRUE, !.logs = logs,
                                          !.i = RollbackLoop(logs, Len(logs))]]
             /\ UNCHANGED rlast
  /\ UNCHANGED <<db, snap, rlog, txStack, phase, activeTxs, crashLen, preT, ckpt>>
  /\ UNCHANGED <<tmVars, btVars, auxVars>>

\* lines 319-327, one turn of the loop: rm.Undo gives the inverse of the
\* edit log it is at to a Handle call, here up to line 110 of Lock
RollbackUndo(id) ==
  /\ phase = "run"
  /\ cl[id].at = "rb"
  /\ cl[id].i >= 2
  /\ TmFree
  /\ LET e == UndoEdit(cl[id].logs[cl[id].i])
         c == LockAsk(id, [cl[id] EXCEPT !.action = e[1], !.key = e[2],
                                         !.val = e[3]])
     IN IF c.at = "failed" THEN Failed(id)
        ELSE cl' = [cl EXCEPT ![id] = c] /\ UNCHANGED rlast
  /\ UNCHANGED <<db, snap, rlog, txStack, phase, activeTxs, crashLen, preT, ckpt>>
  /\ UNCHANGED <<tmVars, btVars, auxVars>>

\* line 331: rm.Commit; tm.Commit follows
RollbackCommit(id) ==
  /\ phase = "run"
  /\ cl[id].at = "rb"
  /\ cl[id].i < 2
  /\ MtxFree
  /\ LET S == RmCommit(Here(<<>>), id)
     IN \/ /\ rlog' = S.log
           /\ txStack' = S.stack
           /\ cl' = [cl EXCEPT ![id].at = "tmCommit"]
           /\ UNCHANGED <<db, snap, phase, activeTxs, crashLen, preT, rlast, ckpt>>
           /\ UNCHANGED tmState
        \/ StackRace(id) /\ Abort(S.log)
  /\ UNCHANGED <<tmOnly, btVars, auxVars>>

(***************************************************************************)
(* RecoveryManager.Recover after a crash.                                  *)
(***************************************************************************)
\* readLogs: the position of the last checkpoint, the first record if none
RECURSIVE LastCheckpoint(_, _)
LastCheckpoint(logs, i) ==
  IF i <= 1 THEN 1
  ELSE IF logs[i].k = "checkpoint" THEN i
  ELSE LastCheckpoint(logs, i - 1)

\* lines 253-259: begin and mark active the ids of the checkpoint
RECURSIVE BeginAll(_, _)
BeginAll(S, ids) ==
  IF ids = {} THEN S
  ELSE LET id == CHOOSE x \in ids : TRUE
       IN BeginAll([TmBegin(S, id) EXCEPT !.active = @ \cup {id}], ids \ {id})

\* one record of the redo loop, lines 279-291
RedoOne(S, log) ==
  IF log.k \in {"table", "edit"} THEN Redo(S, log)
  ELSE IF log.k = "start"
  THEN [TmBegin(S, log.id) EXCEPT !.active = @ \cup {log.id}]
  ELSE IF log.k = "commit"
  THEN TmCommit(RmCommit([S EXCEPT !.active = @ \ {log.id}], log.id), log.id)
  ELSE S

RECURSIVE RedoPass(_, _, _)
RedoPass(S, logs, i) ==
  IF i > Len(logs) THEN S
  ELSE RedoPass(RedoOne(S, logs[i]), logs, i + 1)

\* one record of the undo loop, lines 295-307; the error of Undo is dropped
UndoOne(S, log) ==
  IF log.k = "edit" /\ log.id \in S.active THEN Undo(S, log)
  ELSE IF log.k = "start" /\ log.id \in S.active
  THEN TmCommit(RmCommit(S, log.id), log.id)
  ELSE S

\* the undo loop, from the end of the log down to its first record
RECURSIVE UndoPass(_, _, _)
UndoPass(S, logs, i) ==
  IF i < 1 \/ S.hung THEN S
  ELSE UndoPass(UndoOne(S, logs[i]), logs, i - 1)

\* what Prime finds in the database folder when it has run: the snapshot
\* of the recovery folder; when the process died after Delta removed that
\* folder and before its copy was complete, the database folder as it is
\* (no recovery folder) or the part of it that was copied, with the table
\* or without it
Primed ==
  IF ckpt.on /\ ckpt.at = "copy" THEN DiskNow \cup {NoTable} ELSE {snap}

\* the process is killed, whatever its clients are in the middle of, or has
\* aborted, and is restarted: Prime puts the snapshot back, the managers
\* are new, and Recover runs on the log
Recover ==
  /\ phase \in {"run", "fatal"}
  /\ Len(rlog) > 0
  /\ \E ord \in ResOrders, d \in Primed :
       LET cp == LastCheckpoint(rlog, Len(rlog))
           ids == IF rlog[cp].k = "checkpoint" THEN rlog[cp].ids ELSE {}
           S0 == State(d, rlog, [t \in Tx |-> NoStack], {},
                       [t \in Tx |-> NoResources], [r \in Res |-> LmFree],
                       {}, [t \in Tx |-> {}], ord)
       IN \E S \in {UndoPass(RedoPass(BeginAll(S0, ids), rlog, cp), rlog, Len(rlog))} :
          /\ db' = S.db
          /\ rlog' = S.log
          /\ txStack' = S.stack
          /\ transactions' = S.tx
          /\ resources' = S.res
          /\ lm' = S.lm
          /\ pGraph' = S.graph
          /\ dep' = S.dep
          /\ activeTxs' = S.active
          /\ phase' = IF S.hung THEN "hung" ELSE "done"
          /\ rlast' = <<"Recover", 0, IF S.hung THEN "hung" ELSE "ok">>
          /\ ckpt' = [on |-> FALSE, at |-> "off", disk |-> d]
  /\ crashLen' = Len(rlog)
  /\ cl' = [id \in Client |-> NoClient]
  /\ ranged' = [t \in Tx |-> {}]
  /\ UNCHANGED <<snap, preT, epoch>>
  /\ UNCHANGED <<tmOnly, btVars, auxVars>>

(***************************************************************************)
(* Redo on its own: the table is brought to any state by direct edits      *)
(* (db.HandleInsert / HandleUpdate / HandleDelete), then one edit record   *)
(* is redone.                                                              *)
(***************************************************************************)
NoRedo == [on |-> FALSE, log |-> nilLog, before |-> EmptyDb, err |-> FALSE]

RedoVals == {100, 200}

RedoEdits ==
  {<<a, k, IF a = DELETE_ACTION THEN Absent ELSE v>> :
     a \in Actions, k \in Key, v \in RedoVals}

RedoLogs ==
  {editLog(id, e[1], e[2], Absent, e[3]) : id \in Client, e \in RedoEdits}
    \cup {tableLog}

DbEdit(e) ==
  /\ phase = "run"
  /\ rlog = <<>>
  /\ DbCan(db, e[1], e[2])
  /\ db' = DbApply(db, e[1], e[2], e[3])
  /\ redone' = NoRedo
  /\ UNCHANGED <<snap, rlog, txStack, phase, activeTxs, crashLen, preT, rlast, cl, ckpt>>
  /\ UNCHANGED <<tmVars, btVars, joinVars, ckVars, listVars, lateVars>>

RedoLog(log) ==
  /\ phase = "run"
  /\ rlog = <<>>
  /\ LET S == Redo(Here(<<>>), log)
     IN /\ db' = S.db
        /\ redone' = [on |-> TRUE, log |-> log, before |-> db, err |-> S.err]
  /\ UNCHANGED <<snap, rlog, txStack, phase, activeTxs, crashLen, preT, rlast, cl, ckpt>>
  /\ UNCHANGED <<tmVars, btVars, joinVars, ckVars, listVars, lateVars>>

(***************************************************************************)
(* RecoveryManager.Checkpoint, one action per pager call, next to the page *)
(* updates of the clients.  The pager follows section 4.1 of the           *)
(* specification: a page update waits while the all-updates lock of its    *)
(* pager is held, and FlushAllPages writes every dirty page.               *)
(***************************************************************************)
\* rm.mtx.Lock and GetTables, lines 141-144
CkBegin ==
  /\ ckpc = "idle"
  /\ ckRecs < MaxCk
  /\ ckpc' = "lock"
  /\ cki' = 1
  /\ UNCHANGED <<allUpdates, dirty, ckRecs>>
  /\ UNCHANGED notCk

\* table.GetPager().LockAllUpdates(), line 146
CkLockAllUpdates ==
  /\ ckpc = "lock"
  /\ allUpdates' = [allUpdates EXCEPT ![cki] = TRUE]
  /\ ckpc' = "flush"
  /\ UNCHANGED <<cki, dirty, ckRecs>>
  /\ UNCHANGED notCk

\* table.GetPager().FlushAllPages(), line 147
CkFlushAllPages ==
  /\ ckpc = "flush"
  /\ dirty' = [dirty EXCEPT ![cki] = FALSE]
  /\ ckpc' = "unlock"
  /\ UNCHANGED <<cki, allUpdates, ckRecs>>
  /\ UNCHANGED notCk

\* table.GetPager().UnlockAllUpdates(), line 148, and the loop's next turn
CkUnlockAllUpdates ==
  /\ ckpc = "unlock"
  /\ allUpdates' = [allUpdates EXCEPT ![cki] = FALSE]
  /\ IF cki < NumTables
     THEN cki' = cki + 1 /\ ckpc' = "lock"
     ELSE cki' = cki /\ ckpc' = "record"
  /\ UNCHANGED <<dirty, ckRecs>>
  /\ UNCHANGED notCk

\* the checkpoint record is written and Delta is called, lines 150-159
CkRecord ==
  /\ ckpc = "record"
  /\ ckRecs' = ckRecs + 1
  /\ ckpc' = "idle"
  /\ UNCHANGED <<cki, allUpdates, dirty>>
  /\ UNCHANGED notCk

\* a client's edit updates a page of table tb
PageUpdate(tb) ==
  /\ ~allUpdates[tb]
  /\ dirty' = [dirty EXCEPT ![tb] = TRUE]
  /\ UNCHANGED <<ckpc, cki, allUpdates, ckRecs>>
  /\ UNCHANGED notCk

CkInit ==
  /\ ckpc = "idle"
  /\ cki = 1
  /\ allUpdates = [tb \in CkTable |-> FALSE]
  /\ dirty = [tb \in CkTable |-> FALSE]
  /\ ckRecs = 0

RecInit ==
  /\ db = NoTable
  /\ snap = NoTable
  /\ cl = [id \in Client |-> NoClient]
  /\ ckpt = NoCheckpoint
  /\ rlog = <<>>
  /\ txStack = [t \in Tx |-> NoStack]
  /\ phase = "run"
  /\ activeTxs = {}
  /\ crashLen = 0
  /\ preT = [t \in Tx |-> NoTouch]
  /\ rlast = NoResult

(***************************************************************************)
(* B+-tree index with one client and its cursor.  The tree has a root over *)
(* a chain of leaves; page 1 is the leftmost leaf.                         *)
(***************************************************************************)
NoCursor == [open |-> FALSE, cellnum |-> 0, isEnd |-> FALSE, curNode |-> 0]

\* what getEntry yields for a cell number outside 0..numKeys-1
StaleCell == 0

numKeys(lk, pn) == Len(lk[pn])

\* descent from the root to the leaf whose range holds key k
RECURSIVE Route(_, _, _)
Route(sp, k, i) ==
  IF i = 0 THEN 1
  ELSE IF sp[i].key <= k THEN sp[i].pn
  ELSE Route(sp, k, i - 1)

\* the number of keys of the sorted sequence s that are below k
RECURSIVE Below(_, _)
Below(s, k) ==
  IF s = <<>> \/ Head(s) >= k THEN 0 ELSE 1 + Below(Tail(s), k)

InsertAt(s, n, x) == SubSeq(s, 1, n) \o <<x>> \o SubSeq(s, n + 1, Len(s))

RemoveAt(s, n) == SubSeq(s, 1, n - 1) \o SubSeq(s, n + 1, Len(s))

HasKey(s, k) == \E i \in 1..Len(s) : s[i] = k

SepBelow(sp, k) == Cardinality({i \in 1..Len(sp) : sp[i].key < k})

\* Insert: fails on a present key; a leaf that reaches capacity splits, the
\* first key of the new right leaf goes to the root
Insert(k) ==
  /\ cstate = "ok"
  /\ ~cursor.open
  /\ LET pn == Route(seps, k, Len(seps))
         keys == InsertAt(leafKeys[pn], Below(leafKeys[pn], k), k)
         mid == Len(keys) \div 2
         new == Len(leafKeys) + 1
     IN IF HasKey(leafKeys[pn], k)
        THEN /\ ret' = <<"Insert", "err">>
             /\ UNCHANGED <<leafKeys, rightSib, seps, rdLatch, present, pins>>
        ELSE /\ present' = present \cup {k}
             /\ ret' = <<"Insert", "ok">>
             /\ IF Len(keys) < LeafCap
                THEN /\ leafKeys' = [leafKeys EXCEPT ![pn] = keys]
                     /\ UNCHANGED <<rightSib, seps, rdLatch, pins>>
                ELSE /\ leafKeys' = Append([leafKeys EXCEPT ![pn] = SubSeq(keys, 1, mid)],
                                           SubSeq(keys, mid + 1, Len(keys)))
                     /\ rightSib' = Append([rightSib EXCEPT ![pn] = new], rightSib[pn])
                     /\ seps' = InsertAt(seps, SepBelow(seps, keys[mid + 1]),
                                         [key |-> keys[mid + 1], pn |-> new])
                     /\ rdLatch' = Append(rdLatch, 0)
                     /\ pins' = Append(pins, 0)
  /\ UNCHANGED <<cursor, cstate, trav, seen>>
  /\ UNCHANGED <<tmVars, recVars, auxVars>>

\* Delete: fails on an absent key; shifts the cells left, never rebalances
Delete(k) ==
  /\ cstate = "ok"
  /\ ~cursor.open
  /\ LET pn == Route(seps, k, Len(seps))
     IN IF ~HasKey(leafKeys[pn], k)
        THEN /\ ret' = <<"Delete", "err">>
             /\ UNCHANGED <<leafKeys, present>>
        ELSE /\ leafKeys' = [leafKeys EXCEPT ![pn] = RemoveAt(@, Below(@, k) + 1)]
             /\ present' = present \ {k}
             /\ ret' = <<"Delete", "ok">>
  /\ UNCHANGED <<rightSib, seps, rdLatch, cursor, cstate, trav, seen, pins>>
  /\ UNCHANGED <<tmVars, recVars, auxVars>>

\* pager.GetPage pins the page, Page.Put releases the pin.  Only leaf pages
\* are counted; the pages of the descent are fetched and released alike.
GetPage(p, pn) == [p EXCEPT ![pn] = @ + 1]

PagePut(p, pn) == [p EXCEPT ![pn] = @ - 1]

\* TableStart: the leftmost leaf, read-latched; the deferred Put of every
\* page of the descent runs when TableStart returns
TableStart ==
  /\ cstate = "ok"
  /\ ~cursor.open
  /\ cursor' = [open |-> TRUE, cellnum |-> 0,
                isEnd |-> (numKeys(leafKeys, 1) = 0), curNode |-> 1]
  /\ rdLatch' = [rdLatch EXCEPT ![1] = @ + 1]
  /\ pins' = PagePut(GetPage(pins, 1), 1)
  /\ ret' = <<"TableStart", "ok">>
  /\ trav' = IF numKeys(leafKeys, 1) = 0 THEN "done" ELSE "get"
  /\ seen' = <<>>
  /\ UNCHANGED <<leafKeys, rightSib, seps, cstate, present>>
  /\ UNCHANGED <<tmVars, recVars, auxVars>>

\* TableEnd: the last cell of the rightmost leaf, no latch
TableEnd ==
  /\ cstate = "ok"
  /\ ~cursor.open
  /\ LET pn == IF seps = <<>> THEN 1 ELSE seps[Len(seps)].pn
     IN /\ cursor' = [open |-> TRUE, cellnum |-> numKeys(leafKeys, pn) - 1,
                      isEnd |-> FALSE, curNode |-> pn]
        /\ pins' = PagePut(GetPage(pins, pn), pn)
  /\ ret' = <<"TableEnd", "ok">>
  /\ trav' = "none"
  /\ UNCHANGED <<leafKeys, rightSib, seps, rdLatch, cstate, seen, present>>
  /\ UNCHANGED <<tmVars, recVars, auxVars>>

\* TableFind: the cell of the key or its insertion position, no latch
TableFind(k) ==
  /\ cstate = "ok"
  /\ ~cursor.open
  /\ LET pn == Route(seps, k, Len(seps))
         cell == Below(leafKeys[pn], k)
     IN /\ cursor' = [open |-> TRUE, cellnum |-> cell,
                      isEnd |-> (cell = numKeys(leafKeys, pn)), curNode |-> pn]
        /\ pins' = PagePut(GetPage(pins, pn), pn)
  /\ ret' = <<"TableFind", "ok">>
  /\ trav' = "none"
  /\ UNCHANGED <<leafKeys, rightSib, seps, rdLatch, cstate, seen, present>>
  /\ UNCHANGED <<tmVars, recVars, auxVars>>

\* the state StepForward works on
WalkOn(c, rd, leaves, sib) ==
  [cur |-> c, rd |-> rd, atEnd |-> FALSE, crashed |-> FALSE,
   leaves |-> leaves, sib |-> sib]

\* a cursor call on the table of the B+-tree model
Walk(c, rd) == WalkOn(c, rd, leafKeys, rightSib)

\* page.RUnlock: releasing a latch nobody holds is a fatal runtime error
RUnlock(W, pn) ==
  IF W.rd[pn] = 0 THEN [W EXCEPT !.crashed = TRUE]
  ELSE [W EXCEPT !.rd[pn] = @ - 1]

RLock(W, pn) == [W EXCEPT !.rd[pn] = @ + 1]

RECURSIVE StepForwardFrom(_)
StepForwardFrom(W) ==
  LET c == W.cur
      nextPN == W.sib[c.curNode]
  IN IF c.cellnum + 1 >= numKeys(W.leaves, c.curNode)
     THEN IF nextPN < 0
          THEN [RUnlock(W, c.curNode) EXCEPT !.atEnd = TRUE]
          ELSE LET N == RUnlock(RLock(W, nextPN), c.curNode)
                   M == [N EXCEPT !.cur.cellnum = 0, !.cur.curNode = nextPN]
               IN IF N.crashed THEN N
                  ELSE IF numKeys(W.leaves, nextPN) = 0 THEN StepForwardFrom(M)
                  ELSE M
     ELSE [W EXCEPT !.cur.cellnum = @ + 1]

StepForward ==
  /\ cstate = "ok"
  /\ cursor.open
  /\ LET W == StepForwardFrom(Walk(cursor, rdLatch))
     IN /\ cursor' = W.cur
        /\ rdLatch' = W.rd
        /\ pins' = IF W.cur.curNode # cursor.curNode
                   THEN PagePut(GetPage(pins, W.cur.curNode), W.cur.curNode)
                   ELSE pins
        /\ cstate' = IF W.crashed THEN "crashed" ELSE "ok"
        /\ ret' = <<"StepForward", IF W.crashed THEN "crashed"
                                   ELSE IF W.atEnd THEN "true" ELSE "false">>
        /\ trav' = IF trav = "none" THEN "none"
                   ELSE IF trav # "step" \/ W.crashed THEN "broken"
                   ELSE IF W.atEnd THEN "done" ELSE "get"
  /\ UNCHANGED <<leafKeys, rightSib, seps, seen, present>>
  /\ UNCHANGED <<tmVars, recVars, auxVars>>

IsEnd == cursor.isEnd

\* GetEntry: an error at the end, else the cell under the page's write latch
GetEntry ==
  /\ cstate = "ok"
  /\ cursor.open
  /\ IF IsEnd
     THEN /\ ret' = <<"GetEntry", "err">>
          /\ trav' = IF trav = "none" THEN "none" ELSE "broken"
          /\ UNCHANGED <<cstate, seen>>
     ELSE IF rdLatch[cursor.curNode] > 0
     THEN /\ cstate' = "blocked"
          /\ ret' = <<"GetEntry", "blocked">>
          /\ trav' = IF trav = "none" THEN "none" ELSE "hung"
          /\ UNCHANGED seen
     ELSE LET cell == cursor.cellnum + 1
              e == IF cell \in 1..numKeys(leafKeys, cursor.curNode)
                   THEN leafKeys[cursor.curNode][cell] ELSE StaleCell
          IN /\ ret' = <<"GetEntry", e>>
             /\ trav' = IF trav = "none" THEN "none"
                        ELSE IF trav = "get" THEN "step" ELSE "broken"
             /\ seen' = IF trav = "get" THEN Append(seen, e) ELSE seen
             /\ UNCHANGED cstate
  /\ UNCHANGED <<leafKeys, rightSib, seps, rdLatch, cursor, present, pins>>
  /\ UNCHANGED <<tmVars, recVars, auxVars>>

\* the bounds a range scan is called with
RangeKey == 1..(MaxKey + 1)

\* cursor.GetEntry on the walk state W
EntryAt(W) ==
  LET c == W.cur
      cell == c.cellnum + 1
  IN IF c.isEnd THEN [st |-> "err", key |-> StaleCell]
     ELSE IF W.rd[c.curNode] > 0 THEN [st |-> "blocked", key |-> StaleCell]
     ELSE [st |-> "ok",
           key |-> IF cell \in 1..numKeys(W.leaves, c.curNode)
                   THEN W.leaves[c.curNode][cell] ELSE StaleCell]

\* the loop of TableFindRange: append, StepForward, GetEntry
RECURSIVE FindRangeFrom(_, _, _, _)
FindRangeFrom(W, curEntry, entries, endKey) ==
  IF endKey > curEntry /\ ~W.cur.isEnd
  THEN LET N == StepForwardFrom([W EXCEPT !.atEnd = FALSE])
           G == EntryAt(N)
           got == Append(entries, curEntry)
       IN IF N.crashed THEN [st |-> "crashed", entries |-> got, rd |-> N.rd]
          ELSE IF G.st # "ok" THEN [st |-> G.st, entries |-> got, rd |-> N.rd]
          ELSE FindRangeFrom(N, G.key, got, endKey)
  ELSE [st |-> "ok", entries |-> entries, rd |-> W.rd]

\* TableFindRange: TableFind(startKey), GetEntry, then the loop
TableFindRange(startKey, endKey) ==
  /\ cstate = "ok"
  /\ ~cursor.open
  /\ LET pn == Route(seps, startKey, Len(seps))
         cell == Below(leafKeys[pn], startKey)
         W == Walk([open |-> TRUE, cellnum |-> cell,
                    isEnd |-> (cell = numKeys(leafKeys, pn)), curNode |-> pn],
                   rdLatch)
         G == EntryAt(W)
         R == IF G.st # "ok" THEN [st |-> G.st, entries |-> <<>>, rd |-> rdLatch]
              ELSE FindRangeFrom(W, G.key, <<>>, endKey)
     IN /\ ret' = <<"TableFindRange", R.st, R.entries, startKey, endKey>>
        /\ rdLatch' = R.rd
        /\ cstate' = IF R.st \in {"crashed", "blocked"} THEN R.st ELSE "ok"
  /\ UNCHANGED <<leafKeys, rightSib, seps, cursor, trav, seen, present, pins>>
  /\ UNCHANGED <<tmVars, recVars, auxVars>>

\* the loop of buildHashIndex over a B+-tree cursor: StepForward when IsEnd,
\* GetEntry, Insert into the temporary index, StepForward
RECURSIVE buildLoop(_, _)
buildLoop(W, inserted) ==
  LET S == IF W.cur.isEnd THEN StepForwardFrom([W EXCEPT !.atEnd = FALSE])
           ELSE [W EXCEPT !.atEnd = FALSE]
      G == EntryAt(S)
      N == StepForwardFrom(S)
  IN IF S.crashed THEN [st |-> "crashed", inserted |-> inserted, rd |-> S.rd]
     ELSE IF W.cur.isEnd /\ S.atEnd
     THEN [st |-> "ok", inserted |-> inserted, rd |-> S.rd]
     ELSE IF G.st # "ok" THEN [st |-> G.st, inserted |-> inserted, rd |-> S.rd]
     ELSE IF N.crashed
     THEN [st |-> "crashed", inserted |-> Append(inserted, G.key), rd |-> N.rd]
     ELSE buildLoop(N, Append(inserted, G.key))

\* buildHashIndex on a B+-tree source: TableStart, then the loop.  A call
\* that returns an error leaves its cursor's latch behind; the calls taken
\* here start with no latch held.
BuildHashIndex ==
  /\ cstate = "ok"
  /\ ~cursor.open
  /\ \A pn \in 1..Len(rdLatch) : rdLatch[pn] = 0
  /\ LET W == Walk([open |-> TRUE, cellnum |-> 0,
                    isEnd |-> (numKeys(leafKeys, 1) = 0), curNode |-> 1],
                   [rdLatch EXCEPT ![1] = @ + 1])
         R == buildLoop(W, <<>>)
     IN /\ ret' = <<"buildHashIndex", R.st, R.inserted>>
        /\ rdLatch' = R.rd
        /\ cstate' = IF R.st \in {"crashed", "blocked"} THEN R.st ELSE "ok"
  /\ UNCHANGED <<leafKeys, rightSib, seps, cursor, trav, seen, present, pins>>
  /\ UNCHANGED <<tmVars, recVars, auxVars>>

BTInit ==
  /\ leafKeys = <<(<<>>)>>
  /\ rightSib = <<0 - 1>>
  /\ seps = <<>>
  /\ rdLatch = <<0>>
  /\ cursor = NoCursor
  /\ cstate = "ok"
  /\ ret = <<"none", "none">>
  /\ trav = "none"
  /\ seen = <<>>
  /\ present = {}
  /\ pins = <<0>>

\* ---------------------------------------------------------------------
\* Grace hash join (pkg/query).  The temporary extendible-hash index is not
\* part of the sources; it follows section 4.3 of the specification: a
\* directory of 2^depth slots, buckets with a local depth, and a split on
\* overflow.  Bucket numbers start at 1; slot s of the directory is dir[s+1].
RECURSIVE Pow2(_)
Pow2(n) == IF n = 0 THEN 1 ELSE 2 * Pow2(n - 1)

Hasher(k) == k

NewTable == [depth |-> 0, dir |-> <<1>>, ld |-> <<0>>, ents |-> <<(<<>>)>>]

RECURSIVE Split(_, _)
Split(T, pn) ==
  IF Len(T.ents[pn]) <= BucketCap \/ T.ld[pn] >= MaxDepth THEN T
  ELSE LET D == IF T.ld[pn] = T.depth
                THEN [T EXCEPT !.depth = @ + 1, !.dir = @ \o @]
                ELSE T
           nl == T.ld[pn] + 1
           sib == Len(T.ents) + 1
           High(h) == (h \div Pow2(nl - 1)) % 2 = 1
           stay == SelectSeq(T.ents[pn], LAMBDA e : ~High(Hasher(e.key)))
           move == SelectSeq(T.ents[pn], LAMBDA e : High(Hasher(e.key)))
           S == [depth |-> D.depth,
                 dir |-> [i \in 1..Len(D.dir) |->
                            IF D.dir[i] = pn /\ High(i - 1)
                            THEN sib ELSE D.dir[i]],
                 ld |-> Append([T.ld EXCEPT ![pn] = nl], nl),
                 ents |-> Append([T.ents EXCEPT ![pn] = stay], move)]
       IN Split(Split(S, pn), sib)

HashInsert(T, e) ==
  LET pn == T.dir[(Hasher(e.key) % Pow2(T.depth)) + 1]
  IN Split([T EXCEPT !.ents[pn] = Append(@, e)], pn)

ExtendTable(T) == [T EXCEPT !.depth = @ + 1, !.dir = @ \o @]

RECURSIVE ExtendTo(_, _)
ExtendTo(T, d) == IF T.depth < d THEN ExtendTo(ExtendTable(T), d) ELSE T

HEntry(k, v) == [key |-> k, value |-> v]

\* The entries of a source table: a set of entries with distinct keys.
Tables ==
  {t \in SUBSET [key : JKey, value : JVal] :
     \A a, b \in t : a.key = b.key => a = b}

\* the entries of t in key order
RECURSIVE InKeyOrder(_)
InKeyOrder(t) ==
  IF t = {} THEN <<>>
  ELSE LET entry == CHOOSE x \in t : \A y \in t : x.key <= y.key
       IN <<entry>> \o InKeyOrder(t \ {entry})

\* A source table is a db.Index: a B+-tree, given by its leaves from left to
\* right (deletes leave empty leaves behind), or a hash index, given by its
\* entries in the order its cursor visits them.
Sources ==
  {[kind |-> "hash", pages |-> <<InKeyOrder(t)>>] : t \in Tables}
    \cup {[kind |-> "btree", pages |-> <<InKeyOrder(t)>>] : t \in Tables}
    \cup {[kind |-> "btree", pages |-> <<(<<>>), InKeyOrder(t)>>] : t \in Tables}
    \cup {[kind |-> "btree", pages |-> <<InKeyOrder(t), (<<>>)>>] : t \in Tables}

EntriesOf(sourceTable) ==
  UNION {{sourceTable.pages[pn][i] : i \in 1..Len(sourceTable.pages[pn])} :
           pn \in 1..Len(sourceTable.pages)}

\* BTreeIndex.TableStart on a source table: the cursor on the first cell of
\* the leftmost leaf, with the read latch of that leaf
TableStartOn(pages) ==
  WalkOn([open |-> TRUE, cellnum |-> 0, isEnd |-> (numKeys(pages, 1) = 0),
          curNode |-> 1],
         [pn \in 1..Len(pages) |-> IF pn = 1 THEN 1 ELSE 0],
         pages,
         [pn \in 1..Len(pages) |-> IF pn < Len(pages) THEN pn + 1 ELSE 0 - 1])

\* the loop of buildHashIndex over the cursor of a hash index (the hash
\* index is not part of the sources; its cursor follows section 4.2 of the
\* specification: it reports the end at once on an empty table and after
\* the step past the last entry): StepForward when IsEnd, GetEntry, Insert,
\* StepForward
RECURSIVE hashLoop(_, _, _, _)
hashLoop(entries, pos, isEnd, inserted) ==
  IF isEnd THEN [st |-> "ok", inserted |-> inserted, rd |-> <<>>]
  ELSE hashLoop(entries, IF pos < Len(entries) THEN pos + 1 ELSE pos,
                pos >= Len(entries), Append(inserted, entries[pos]))

\* the Insert calls of the loop: (key, value) when useKey and (value, value)
\* otherwise
RECURSIVE buildHashIndex_Rest(_, _, _)
buildHashIndex_Rest(tempIndex, rest, useKey) ==
  IF rest = <<>> THEN tempIndex
  ELSE LET entry == Head(rest)
           ins == IF useKey THEN HEntry(entry.key, entry.value)
                  ELSE HEntry(entry.value, entry.value)
       IN buildHashIndex_Rest(HashInsert(tempIndex, ins), Tail(rest), useKey)

\* buildHashIndex: TableStart on the source table, then the loop.  st is
\* "ok" when it returns the index, "err" when it returns an error and
\* "blocked" when it never returns; rd is the read latches its cursor is
\* left with.
buildHashIndex(sourceTable, useKey) ==
  LET R == IF sourceTable.kind = "btree"
           THEN buildLoop(TableStartOn(sourceTable.pages), <<>>)
           ELSE hashLoop(sourceTable.pages[1], 1, sourceTable.pages[1] = <<>>,
                         <<>>)
  IN [st |-> R.st,
      index |-> buildHashIndex_Rest(NewTable, R.inserted, useKey),
      held |-> {pn \in 1..Len(R.rd) : R.rd[pn] > 0}]

Swapped(e) == HEntry(e.value, e.key)

\* The pair probeBuckets sends for a match, by the four cases of the flags.
EntryPair(lEntry, rEntry, joinOnLeftKey, joinOnRightKey) ==
  [l |-> IF joinOnLeftKey THEN lEntry ELSE Swapped(lEntry),
   r |-> IF joinOnRightKey THEN rEntry ELSE Swapped(rEntry)]

\* The results probeBuckets sends, in the order of its nested loops.
RECURSIVE probeBuckets_From(_, _, _, _, _, _)
probeBuckets_From(lB, rB, i, j, lk, rk) ==
  IF i > Len(lB) THEN <<>>
  ELSE IF j > Len(rB) THEN probeBuckets_From(lB, rB, i + 1, 1, lk, rk)
  ELSE (IF lB[i].key = rB[j].key
        THEN <<EntryPair(lB[i], rB[j], lk, rk)>> ELSE <<>>)
       \o probeBuckets_From(lB, rB, i, j + 1, lk, rk)

probeBuckets(lBucket, rBucket, joinOnLeftKey, joinOnRightKey) ==
  probeBuckets_From(lBucket, rBucket, 1, 1, joinOnLeftKey, joinOnRightKey)

\* Join's loop over the two directories, skipping bucket pairs already seen.
RECURSIVE BucketPairs(_, _, _, _)
BucketPairs(leftBuckets, rightBuckets, i, seenList) ==
  IF i > Len(leftBuckets) THEN <<>>
  ELSE LET bucketPair == <<leftBuckets[i], rightBuckets[i]>>
       IN IF bucketPair \in seenList
          THEN BucketPairs(leftBuckets, rightBuckets, i + 1, seenList)
          ELSE <<bucketPair>>
               \o BucketPairs(leftBuckets, rightBuckets, i + 1,
                              seenList \cup {bucketPair})

NoSource == [kind |-> "none", pages |-> <<>>]

NoJoin ==
  [l |-> NoSource, r |-> NoSource, lk |-> FALSE, rk |-> FALSE, on |-> FALSE,
   st |-> "none", held |-> {}]

\* Join: build both temporary indexes, extend the shallower one, and start
\* one probe goroutine per distinct pair of equal-indexed buckets.  A
\* buildHashIndex that returns an error ends Join with that error, and one
\* that never returns keeps Join from returning; the latches its cursor is
\* left with stay held (held: the side and the leaf).
Join(leftTable, rightTable, joinOnLeftKey, joinOnRightKey) ==
  /\ ~jcall.on
  /\ LET lB == buildHashIndex(leftTable, joinOnLeftKey)
         rB == buildHashIndex(rightTable, joinOnRightKey)
         lI == lB.index
         rI == rB.index
         d == IF lI.depth < rI.depth THEN rI.depth ELSE lI.depth
         L == ExtendTo(lI, d)
         R == ExtendTo(rI, d)
         bps == BucketPairs(L.dir, R.dir, 1, {})
         st == IF lB.st # "ok" THEN lB.st ELSE rB.st
         held == {<<"left", pn>> : pn \in lB.held}
                   \cup (IF lB.st = "ok" THEN {<<"right", pn>> : pn \in rB.held}
                         ELSE {})
     IN /\ jprobes' = IF st # "ok" THEN <<>>
                      ELSE [n \in 1..Len(bps) |->
                              [todo |-> probeBuckets(L.ents[bps[n][1]],
                                                     R.ents[bps[n][2]],
                                                     joinOnLeftKey,
                                                     joinOnRightKey),
                               st |-> "run"]]
        /\ jcall' = [l |-> leftTable, r |-> rightTable, lk |-> joinOnLeftKey,
                     rk |-> joinOnRightKey, on |-> TRUE, st |-> st,
                     held |-> held]
  /\ UNCHANGED <<jchan, jctx, jout>>
  /\ UNCHANGED notJoin

\* sendResult, the send case of the select: possible while the channel has
\* room, whether or not the context is cancelled.
SendResult(n) ==
  /\ n \in 1..Len(jprobes)
  /\ jprobes[n].st = "run"
  /\ jprobes[n].todo # <<>>
  /\ Len(jchan) < ChanCap
  /\ jchan' = Append(jchan, Head(jprobes[n].todo))
  /\ jprobes' = [jprobes EXCEPT ![n].todo = Tail(@)]
  /\ UNCHANGED <<jcall, jctx, jout>>
  /\ UNCHANGED notJoin

\* sendResult as a plain channel send, without the ctx.Done case
SendCancelled_PlainSend(n) ==
  /\ n \in 1..Len(jprobes)
  /\ jprobes[n].st = "run"
  /\ FALSE
  /\ UNCHANGED vars

\* sendResult, the ctx.Done case of the select: the probe returns ctx.Err().
SendCancelled(n) ==
  /\ n \in 1..Len(jprobes)
  /\ jprobes[n].st = "run"
  /\ jprobes[n].todo # <<>>
  /\ jctx = "cancelled"
  /\ jprobes' = [jprobes EXCEPT ![n].st = "ctxerr"]
  /\ UNCHANGED <<jcall, jchan, jctx, jout>>
  /\ UNCHANGED notJoin

\* probeBuckets leaves its loops and returns nil.
ProbeReturn(n) ==
  /\ n \in 1..Len(jprobes)
  /\ jprobes[n].st = "run"
  /\ jprobes[n].todo = <<>>
  /\ jprobes' = [jprobes EXCEPT ![n].st = "done"]
  /\ UNCHANGED <<jcall, jchan, jctx, jout>>
  /\ UNCHANGED notJoin

\* The caller of Join receives one pair from resultsChan.
Receive ==
  /\ jchan # <<>>
  /\ jout' = Append(jout, Head(jchan))
  /\ jchan' = Tail(jchan)
  /\ UNCHANGED <<jcall, jprobes, jctx>>
  /\ UNCHANGED notJoin

\* The caller of Join cancels the context it passed.
Cancel ==
  /\ jcall.on
  /\ jctx = "live"
  /\ jctx' = "cancelled"
  /\ UNCHANGED <<jcall, jprobes, jchan, jout>>
  /\ UNCHANGED notJoin

JoinInit ==
  /\ jcall = NoJoin
  /\ jprobes = <<>>
  /\ jchan = <<>>
  /\ jctx = "live"
  /\ jout = <<>>

\* ---------------------------------------------------------------------
\* The doubly linked list (pkg/list/list.go).  A link is its number in
\* links; lseq is kept next to the list as the sequence it should stand for.
Link(inList, prev, next, value) ==
  [list |-> inList, prev |-> prev, next |-> next, value |-> value]

\* the values pushed: the number of the push
PushVals == {Len(links) + 1}

PeekHead == lhead

PeekTail == ltail

PushHead(value) ==
  /\ Len(links) < MaxLinks
  /\ value \in PushVals
  /\ LET new == Len(links) + 1
     IN /\ IF lhead = Nil
           THEN /\ links' = Append(links, Link(TRUE, Nil, Nil, value))
                /\ ltail' = new
           ELSE /\ links' = Append([links EXCEPT ![lhead].prev = new],
                                   Link(TRUE, Nil, lhead, value))
                /\ ltail' = ltail
        /\ lhead' = new
        /\ lseq' = <<new>> \o lseq
  /\ UNCHANGED notList

PushTail(value) ==
  /\ Len(links) < MaxLinks
  /\ value \in PushVals
  /\ LET new == Len(links) + 1
     IN /\ IF ltail = Nil
           THEN /\ links' = Append(links, Link(TRUE, Nil, Nil, value))
                /\ lhead' = new
           ELSE /\ links' = Append([links EXCEPT ![ltail].next = new],
                                   Link(TRUE, ltail, Nil, value))
                /\ lhead' = lhead
        /\ ltail' = new
        /\ lseq' = Append(lseq, new)
  /\ UNCHANGED notList

\* PopSelf that leaves list.tail alone
PopSelf_KeepTail(link) ==
  /\ link \in 1..Len(links)
  /\ links[link].list
  /\ LET L == links[link]
         A == IF L.prev = Nil THEN links
              ELSE [links EXCEPT ![L.prev].next = L.next]
         B == IF L.next = Nil THEN A
              ELSE [A EXCEPT ![L.next].prev = L.prev]
     IN /\ lhead' = IF L.prev = Nil THEN L.next ELSE lhead
        /\ ltail' = ltail
        /\ links' = [B EXCEPT ![link] = Link(FALSE, Nil, Nil, L.value)]
  /\ lseq' = SelectSeq(lseq, LAMBDA x : x # link)
  /\ UNCHANGED notList

PopSelf(link) ==
  /\ link \in 1..Len(links)
  /\ links[link].list
  /\ LET L == links[link]
         A == IF L.prev = Nil THEN links
              ELSE [links EXCEPT ![L.prev].next = L.next]
         B == IF L.next = Nil THEN A
              ELSE [A EXCEPT ![L.next].prev = L.prev]
     IN /\ lhead' = IF L.prev = Nil THEN L.next ELSE lhead
        /\ ltail' = IF L.next = Nil THEN L.prev ELSE ltail
        /\ links' = [B EXCEPT ![link] = Link(FALSE, Nil, Nil, L.value)]
  /\ lseq' = SelectSeq(lseq, LAMBDA x : x # link)
  /\ UNCHANGED notList

\* the values given to SetKey: the link's number and twice that, which is
\* what Map makes of a pushed value
SetVals(link) == {link, 2 * link}

\* Link.SetKey
SetKey(link, value) ==
  /\ link \in 1..Len(links)
  /\ value \in SetVals(link)
  /\ links' = [links EXCEPT ![link].value = value]
  /\ UNCHANGED <<lhead, ltail, lseq>>
  /\ UNCHANGED notList

\* the functions given to Map: one sets the link's key to twice its key,
\* one pops the link
MapFuncs == {"double", "pop"}

\* f(link) on the list ls = [head, tail, links]
MapApply(ls, link, f) ==
  IF f = "double"
  THEN [ls EXCEPT !.links[link].value = 2 * @]
  ELSE LET L == ls.links[link]
           A == IF L.prev = Nil THEN ls.links
                ELSE [ls.links EXCEPT ![L.prev].next = L.next]
           B == IF L.next = Nil THEN A
                ELSE [A EXCEPT ![L.next].prev = L.prev]
       IN [head |-> IF L.prev = Nil THEN L.next ELSE ls.head,
           tail |-> IF L.next = Nil THEN L.prev ELSE ls.tail,
           links |-> [B EXCEPT ![link] = Link(FALSE, Nil, Nil, L.value)]]

\* the loop of Map: link.next is read after f(link) has run
RECURSIVE MapLoop(_, _, _)
MapLoop(ls, link, f) ==
  IF link = Nil THEN ls
  ELSE LET after == MapApply(ls, link, f)
       IN MapLoop(after, after.links[link].next, f)

\* List.Map; the doubling function is applied to a list whose links hold
\* the values they were pushed with
Map(f) ==
  /\ f \in MapFuncs
  /\ f = "double" => \A i \in 1..Len(links) : links[i].list => links[i].value = i
  /\ LET ls == MapLoop([head |-> lhead, tail |-> ltail, links |-> links], lhead, f)
     IN /\ lhead' = ls.head
        /\ ltail' = ls.tail
        /\ links' = ls.links
        /\ lseq' = SelectSeq(lseq, LAMBDA x : ls.links[x].list)
  /\ UNCHANGED notList

ListInit ==
  /\ lhead = Nil
  /\ ltail = Nil
  /\ links = <<>>
  /\ lseq = <<>>

(***************************************************************************)
(* tm.tmMtx.  sync.RWMutex prefers writers: a Lock call announces itself,  *)
(* from then on RLock calls block, and Lock returns once the readers that  *)
(* were inside have left.  A second writer waits for the first.  Between   *)
(* the mutex calls each handler reads or writes tm.transactions as in Spec.*)
(***************************************************************************)
Idle == [op |-> "none", at |-> "idle"]

\* tmMtx.RLock returns
MtxRLockOk == pending = NoThread

\* a goroutine calls Lock or Unlock of the transaction manager
CallReader(g, op) ==
  /\ mpc[g] = Idle
  /\ op \in {"Lock", "Unlock"}
  /\ mpc' = [mpc EXCEPT ![g] = [op |-> op, at |-> "outer"]]
  /\ UNCHANGED <<readers, pending, wheld>>
  /\ UNCHANGED notMtx

\* Lock / Unlock: tm.tmMtx.RLock()
OuterRLock(g) ==
  /\ mpc[g].at = "outer"
  /\ MtxRLockOk
  /\ readers' = readers + 1
  /\ mpc' = [mpc EXCEPT ![g].at = "inner"]
  /\ UNCHANGED <<pending, wheld>>
  /\ UNCHANGED notMtx

\* GetTransaction: tm.tmMtx.RLock() under the caller's read hold
InnerRLock(g) ==
  /\ mpc[g].at = "inner"
  /\ MtxRLockOk
  /\ readers' = readers + 1
  /\ mpc' = [mpc EXCEPT ![g].at = "lookup"]
  /\ UNCHANGED <<pending, wheld>>
  /\ UNCHANGED notMtx

\* GetTransaction: the map lookup, then the deferred tm.tmMtx.RUnlock()
InnerRUnlock(g) ==
  /\ mpc[g].at = "lookup"
  /\ readers' = readers - 1
  /\ mpc' = [mpc EXCEPT ![g].at = "back"]
  /\ UNCHANGED <<pending, wheld>>
  /\ UNCHANGED notMtx

\* Lock / Unlock: tm.tmMtx.RUnlock(); the rest of the call is outside tmMtx
OuterRUnlock(g) ==
  /\ mpc[g].at = "back"
  /\ readers' = readers - 1
  /\ mpc' = [mpc EXCEPT ![g] = Idle]
  /\ UNCHANGED <<pending, wheld>>
  /\ UNCHANGED notMtx

\* a goroutine calls Begin or Commit of the transaction manager
CallWriter(g, op) ==
  /\ mpc[g] = Idle
  /\ op \in {"Begin", "Commit"}
  /\ mpc' = [mpc EXCEPT ![g] = [op |-> op, at |-> "announce"]]
  /\ UNCHANGED <<readers, pending, wheld>>
  /\ UNCHANGED notMtx

\* Begin / Commit: tm.tmMtx.Lock() announces the writer
WriterAnnounce(g) ==
  /\ mpc[g].at = "announce"
  /\ pending = NoThread
  /\ pending' = g
  /\ mpc' = [mpc EXCEPT ![g].at = "drain"]
  /\ UNCHANGED <<readers, wheld>>
  /\ UNCHANGED notMtx

\* Begin / Commit: tm.tmMtx.Lock() returns when no reader is inside
WriterAcquire(g) ==
  /\ mpc[g].at = "drain"
  /\ readers = 0
  /\ wheld' = TRUE
  /\ mpc' = [mpc EXCEPT ![g].at = "write"]
  /\ UNCHANGED <<readers, pending>>
  /\ UNCHANGED notMtx

\* Begin / Commit: the body, then the deferred tm.tmMtx.Unlock()
WriterUnlock(g) ==
  /\ mpc[g].at = "write"
  /\ wheld' = FALSE
  /\ pending' = NoThread
  /\ mpc' = [mpc EXCEPT ![g] = Idle]
  /\ UNCHANGED readers
  /\ UNCHANGED notMtx

MtxInit ==
  /\ mpc = [g \in Thread |-> Idle]
  /\ readers = 0
  /\ pending = NoThread
  /\ wheld = FALSE

(***************************************************************************)
(* The Bloom filter.  hash.XxHasher and hash.MurmurHasher are not part of  *)
(* the sources: each is a function of the key and the filter size with a   *)
(* result below the size, and every such pair of functions is tried.       *)
(***************************************************************************)
NoHash == [key \in BloomKey |-> 0]

NoContains == <<0, FALSE>>

XxHasher(key) == bhash[1][key]

MurmurHasher(key) == bhash[2][key]

\* Contains on the bit set b: both positions are set
Contains(b, key) == XxHasher(key) \in b /\ MurmurHasher(key) \in b

CreateFilter(size, h1, h2) ==
  /\ bsize = 0
  /\ size \in 1..FilterSize
  /\ h1 \in [BloomKey -> 0..(size - 1)]
  /\ h2 \in [BloomKey -> 0..(size - 1)]
  /\ bsize' = size
  /\ bits' = {}
  /\ bhash' = <<h1, h2>>
  /\ UNCHANGED <<bkeys, bret>>
  /\ UNCHANGED notBloom

BloomInsert_OneBit(key) ==
  /\ bsize > 0
  /\ bits' = bits \cup {XxHasher(key)}
  /\ bkeys' = bkeys \cup {key}
  /\ bret' = NoContains
  /\ UNCHANGED <<bsize, bhash>>
  /\ UNCHANGED notBloom

\* Insert: set the bits at the two hash values
BloomInsert(key) ==
  /\ bsize > 0
  /\ bits' = (bits \cup {XxHasher(key)}) \cup {MurmurHasher(key)}
  /\ bkeys' = bkeys \cup {key}
  /\ bret' = NoContains
  /\ UNCHANGED <<bsize, bhash>>
  /\ UNCHANGED notBloom

\* a Contains call
BloomContains(key) ==
  /\ bsize > 0
  /\ bret' = <<key, Contains(bits, key)>>
  /\ UNCHANGED <<bsize, bits, bhash, bkeys>>
  /\ UNCHANGED notBloom

BloomInit ==
  /\ bsize = 0
  /\ bits = {}
  /\ bhash = <<NoHash, NoHash>>
  /\ bkeys = {}
  /\ bret = NoContains

Init == TMInit /\ RecInit /\ BTInit /\ JoinInit /\ redone = NoRedo /\ CkInit
        /\ ListInit /\ MtxInit /\ BloomInit

TMNext ==
  \/ \E t \in Tx : Begin(t)
  \/ \E t \in Tx, r \in Res, m \in LockTypes : LockStart(t, r, m)
  \/ \E t \in Tx : LockDiscover(t)
  \/ \E t \in Tx : LockAddEdges(t)
  \/ \E t \in Tx : LockDetect(t)
  \/ \E t \in Tx : LockUnwind(t)
  \/ \E t \in Tx : LockRecord(t)
  \/ \E t \in Tx : LockAcquire(t)
  \/ \E t \in Tx : LockRemoveEdges(t)
  \/ \E t \in Tx, r \in Res, m \in LockTypes : Unlock(t, r, m)
  \/ \E t \in Tx : UnlockRelease(t)
  \/ \E t \in Tx : Commit(t)
  \/ \E t \in Tx : CommitUnlock(t)
  \/ \E t \in Tx : CommitDelete(t)

Next == TMNext

Spec == Init /\ [][Next]_vars

(***************************************************************************)
(* The recovery manager: a server runs client commands and checkpoints,    *)
(* is killed, and recovers.                                                *)
(***************************************************************************)
\* the edit commands the clients send
Edits ==
  {<<INSERT_ACTION, 5, 100>>, <<INSERT_ACTION, 6, 200>>,
   <<UPDATE_ACTION, 5, 200>>, <<DELETE_ACTION, 6, Absent>>}

\* the edits made with RecoveryManager.Edit by a client that has no
\* transaction
OutsideEdits == {<<INSERT_ACTION, 5, 100>>, <<DELETE_ACTION, 6, Absent>>}

\* the steps of the clients, which begin, edit, commit, roll back and
\* release locks with TransactionManager.Unlock, and of the server's
\* checkpoint
ClientRun ==
  \/ CreateTable
  \/ \E id \in Client : TxBegin(id)
  \/ \E id \in Client : BeginStart(id)
  \/ \E id \in Client, e \in Edits : TxEdit(id, e[1], e[2], e[3])
  \/ \E id \in Client, e \in OutsideEdits : EditOutside(id, e[1], e[2], e[3])
  \/ \E id \in Client : EditDiscover(id)
  \/ \E id \in Client : EditAddEdges(id)
  \/ \E id \in Client : EditDetect(id)
  \/ \E id \in Client : EditUnwind(id)
  \/ \E id \in Client : EditRecord(id)
  \/ \E id \in Client : EditAcquire(id)
  \/ \E id \in Client : EditRemoveEdges(id)
  \/ \E id \in Client : EditLog(id)
  \/ \E id \in Client : EditApply(id)
  \/ \E id \in Client : TxCommit(id)
  \/ \E id \in Client : CommitLocks(id)
  \/ \E id \in Client : TxCommitUnlock(id)
  \/ \E id \in Client : TxCommitDelete(id)
  \/ \E id \in Client, key \in Key, lType \in LockTypes : TxUnlock(id, key, lType)
  \/ \E id \in Client : TxUnlockRelease(id)
  \/ \E id \in Client : Rollback(id)
  \/ \E id \in Client : RollbackRead(id)
  \/ \E id \in Client : RollbackUndo(id)
  \/ \E id \in Client : RollbackCommit(id)
  \/ Checkpoint
  \/ CheckpointLog
  \/ DeltaRemove
  \/ DeltaCopy

\* the server runs, is killed or aborts, and recovers
RecRun ==
  \/ ClientRun
  \/ Recover

RecNext == RecRun

SpecRec == Init /\ [][RecNext]_vars

(***************************************************************************)
(* The B+-tree: a client builds a table, then opens a cursor and uses it.  *)
(***************************************************************************)
BTNext ==
  \/ \E k \in BKey : Insert(k)
  \/ \E k \in BKey : Delete(k)
  \/ TableStart
  \/ TableEnd
  \/ \E k \in BKey : TableFind(k)
  \/ StepForward
  \/ GetEntry

SpecBT == Init /\ [][BTNext]_vars

\* range scans and hash-index builds over a table that is being edited
RangeNext ==
  \/ \E k \in BKey : Insert(k)
  \/ \E k \in BKey : Delete(k)
  \/ \E startKey \in RangeKey, endKey \in RangeKey : TableFindRange(startKey, endKey)
  \/ BuildHashIndex

SpecRange == Init /\ [][RangeNext]_vars

\* the goroutines that call the transaction manager
MtxStep(g) ==
  \/ \E op \in {"Lock", "Unlock"} : CallReader(g, op)
  \/ OuterRLock(g)
  \/ InnerRLock(g)
  \/ InnerRUnlock(g)
  \/ OuterRUnlock(g)
  \/ \E op \in {"Begin", "Commit"} : CallWriter(g, op)
  \/ WriterAnnounce(g)
  \/ WriterAcquire(g)
  \/ WriterUnlock(g)

\* the steps inside a call: the scheduler runs every goroutine that can run
MtxRun(g) ==
  \/ OuterRLock(g)
  \/ InnerRLock(g)
  \/ InnerRUnlock(g)
  \/ OuterRUnlock(g)
  \/ WriterAnnounce(g)
  \/ WriterAcquire(g)
  \/ WriterUnlock(g)

MtxNext == \E g \in Thread : MtxStep(g)

SpecMtx == Init /\ [][MtxNext]_vars

SpecMtxFair == SpecMtx /\ \A g \in Thread : WF_vars(MtxRun(g))

HashTables == [BloomKey -> 0..(FilterSize - 1)]

BloomNext ==
  \/ \E size \in 1..FilterSize, h1 \in HashTables, h2 \in HashTables :
        CreateFilter(size, h1, h2)
  \/ \E key \in BloomKey : BloomInsert(key)
  \/ \E key \in BloomKey : BloomContains(key)

SpecBloom == Init /\ [][BloomNext]_vars

RedoNext ==
  \/ \E e \in RedoEdits : DbEdit(e)
  \/ \E log \in RedoLogs : RedoLog(log)

SpecRedo == Init /\ [][RedoNext]_vars

CkNext ==
  \/ CkBegin
  \/ CkLockAllUpdates
  \/ CkFlushAllPages
  \/ CkUnlockAllUpdates
  \/ CkRecord
  \/ \E tb \in CkTable : PageUpdate(tb)

SpecCk == Init /\ [][CkNext]_vars

ListNext ==
  \/ \E value \in 1..MaxLinks : PushHead(value)
  \/ \E value \in 1..MaxLinks : PushTail(value)
  \/ \E link \in 1..MaxLinks : PopSelf(link)
  \/ \E link \in 1..MaxLinks, value \in 1..(2 * MaxLinks) : SetKey(link, value)
  \/ \E f \in MapFuncs : Map(f)

SpecList == Init /\ [][ListNext]_vars

JoinNext ==
  \/ \E l \in Sources, r \in Sources, lk \in BOOLEAN, rk \in BOOLEAN :
       Join(l, r, lk, rk)
  \/ \E n \in 1..Pow2(MaxDepth) : SendResult(n)
  \/ \E n \in 1..Pow2(MaxDepth) : SendCancelled(n)
  \/ \E n \in 1..Pow2(MaxDepth) : ProbeReturn(n)
  \/ Receive
  \/ Cancel

SpecJoin == Init /\ [][JoinNext]_vars

\* A probe goroutine that can take a step is scheduled eventually; nothing
\* obliges the caller to receive or to cancel.
ProbeStep(n) == SendResult(n) \/ SendCancelled(n) \/ ProbeReturn(n)

SpecJoinFair ==
  /\ Init
  /\ [][JoinNext]_vars
  /\ \A n \in 1..Pow2(MaxDepth) : WF_vars(ProbeStep(n))


(***************************************************************************)
(* Properties of the transaction manager.                                  *)
(***************************************************************************)
\* t has been granted r: it is in t's map, t is not still inside lm.Lock,
\* and t's Commit has not released it
Granted(t, r) ==
  /\ t \in transactions
  /\ resources[t][r] # NoLock
  /\ ~(pc[t] \in {"lmLock", "blocked"} /\ last[t].r = r)
  /\ ~(pc[t] = "commit" /\ r \in ranged[t])

\* t made a call in this step
Called(t, op) == last'[t] # last[t] /\ last'[t].op = op

RECURSIVE HasPath(_, _, _, _)
HasPath(g, a, b, k) ==
  k > 0 /\ \E e \in g : e[1] = a /\ (e[2] = b \/ HasPath(g, e[2], b, k - 1))

Cyclic(g) == \E e \in g : HasPath(g, e[1], e[1], Cardinality(g))

\* C1: a Lock request that finds the waits-for graph cyclic takes its edges
\* out again and returns the deadlock error without reaching the lock
\* manager; and with A holding key 5 for writing, B holding key 6 for
\* writing and A blocked on its request for key 6, a request of B for key 5
\* in write mode goes to discoverTransactions, finds A, and is rejected at
\* DetectCycle without being enqueued.
C1_RejectsCycle ==
  [][\A t \in Tx :
       /\ (pc[t] = "detect" /\ pc'[t] \notin {"detect", "fatal"} /\ Cyclic(pGraph))
            => /\ pc'[t] = "unwind"
               /\ lm' = lm
               /\ resources' = resources
       /\ (pc[t] = "unwind" /\ pc'[t] \notin {"unwind", "fatal"})
            => /\ pc'[t] = "idle"
               /\ last'[t].res = "deadlock"
               /\ lm' = lm
               /\ resources' = resources
       /\ \A a \in Tx \ {t} :
            (/\ Granted(a, 5) /\ resources[a][5] = W_LOCK
             /\ Granted(t, 6) /\ resources[t][6] = W_LOCK
             /\ pc[a] = "blocked" /\ last[a].r = 6 /\ last[a].m = W_LOCK)
            => /\ (/\ pc[t] = "idle" /\ Called(t, "Lock")
                   /\ last'[t].r = 5 /\ last'[t].m = W_LOCK)
                    => pc'[t] = "discover"
               /\ (pc[t] = "discover" /\ pc'[t] = "addEdge" /\ last[t].r = 5)
                    => Node(a) \in dep'[t]
               /\ (/\ pc[t] = "detect" /\ pc'[t] \notin {"detect", "fatal"}
                   /\ last[t].r = 5 /\ last[t].m = W_LOCK)
                    => (pc'[t] = "unwind" /\ lm' = lm)]_vars

\* A holds key 5 and is parked behind B on key 6, and B, holding key 6, made
\* its request for key 5 after that and is parked behind A
C1_Witness ==
  \E a, b \in Tx :
     /\ a # b
     /\ Granted(a, 5) /\ resources[a][5] = W_LOCK
     /\ Granted(b, 6) /\ resources[b][6] = W_LOCK
     /\ pc[a] = "blocked" /\ last[a] = Call("Lock", 6, W_LOCK, "pending")
     /\ pc[b] = "blocked" /\ last[b] = Call("Lock", 5, W_LOCK, "pending")
     /\ dep[a] = {}
     /\ dep[b] = {Node(a)}

SoleHolder(t, r) ==
  /\ lm[r].count = 1
  /\ lm[r].queue = <<>>
  /\ \A u \in transactions \ {t} : resources[u][r] = NoLock

\* t, the only holder of r and holding it for reading, calls Lock(r, W)
UpgradeCall(t, r) ==
  /\ pc[t] = "idle"
  /\ Granted(t, r)
  /\ resources[t][r] = R_LOCK
  /\ SoleHolder(t, r)
  /\ Called(t, "Lock")
  /\ last'[t].r = r
  /\ last'[t].m = W_LOCK

\* C2: the sole reader of a resource that asks for it in write mode gets
\* success and then holds it in write mode.
C2_UpgradeSucceeds ==
  [][\A t \in Tx, r \in Res :
       UpgradeCall(t, r) => (last'[t].res = "ok" /\ resources'[t][r] = W_LOCK)]_vars

\* the sole reader of a resource asked for it in write mode and was refused
C2_Witness ==
  \E t \in Tx, r \in Res :
     /\ last[t] = Call("Lock", r, W_LOCK, "norights")
     /\ pc[t] = "idle"
     /\ Granted(t, r)
     /\ resources[t][r] = R_LOCK
     /\ SoleHolder(t, r)

\* C3: two distinct live transactions that have both been granted the same
\* resource both hold it in read mode.
C3_GrantedCompatible ==
  \A t \in Tx, u \in Tx, r \in Res :
     (t # u /\ Granted(t, r) /\ Granted(u, r))
        => (resources[t][r] = R_LOCK /\ resources[u][r] = R_LOCK)

C3_Witness ==
  \E t \in Tx, u \in Tx, r \in Res :
     /\ t # u
     /\ Granted(t, r) /\ Granted(u, r)
     /\ pc[t] = "idle" /\ pc[u] = "idle"
     /\ last[t] = Call("Lock", r, R_LOCK, "ok")
     /\ last[u] = Call("Lock", r, R_LOCK, "ok")

\* the lock a blocked t is waiting for is held by u
WaitsFor(t, u) == pc[t] = "blocked" /\ u # t /\ Granted(u, last[t].r)

\* C4: no set of transactions is ever blocked inside the lock manager with
\* each member waiting for a resource held by another member.
C4_NoBlockedCycle ==
  ~ \E S \in SUBSET Tx :
       /\ S # {}
       /\ \A t \in S : \E u \in S : WaitsFor(t, u)

\* t's Unlock of r has deleted the entry of t's map and has not reached the
\* lock manager yet
Unlocking(t, r) == pc[t] = "lmUnlock" /\ last[t].r = r

\* t holds r at the lock manager, in mode HeldMode(t, r)
Held(t, r) == Granted(t, r) \/ Unlocking(t, r)

HeldMode(t, r) == IF Unlocking(t, r) THEN last[t].m ELSE resources[t][r]

\* every lock the lock manager counts belongs to a live transaction that
\* holds it, in the mode the transaction recorded
LmAccounted ==
  \A r \in Res :
     /\ lm[r].count = Cardinality({u \in Tx : Held(u, r)})
     /\ \A u \in Tx : Held(u, r) => HeldMode(u, r) = lm[r].mode

\* C5: Commit of a live transaction releases each lock of its resource map
\* once, in its recorded mode, and then forgets the transaction, which holds
\* no lock afterwards; Commit of a transaction that was never begun returns
\* an error and changes nothing.
C5_CommitReleasesAll ==
  [][\A t \in Tx :
       /\ (pc[t] = "idle" /\ Called(t, "Commit")) =>
            IF t \in transactions
            THEN /\ pc'[t] = "commit"
                 /\ UNCHANGED <<transactions, epoch, resources, pGraph, lm, dep>>
            ELSE /\ last'[t].res = "err"
                 /\ UNCHANGED <<transactions, epoch, resources, pGraph, lm, pc, dep>>
       /\ (pc[t] = "commit" /\ pc'[t] = "commit" /\ ranged'[t] # ranged[t]) =>
            \E r \in HeldRes(t) \ ranged[t] :
               /\ lm[r].mode = resources[t][r]
               /\ lm' = [lm EXCEPT ![r] = LmRelease(lm[r])]
               /\ ranged'[t] = ranged[t] \cup {r}
               /\ \A u \in Tx \ {t}, q \in Res : Granted(u, q) => Granted(u, q)'
       /\ (pc[t] = "commit" /\ pc'[t] = "idle") =>
            /\ last'[t] = Call("Commit", 0, NoLock, "ok")
            /\ ranged[t] = HeldRes(t)
            /\ t \notin transactions'
            /\ \A r \in Res : ~Granted(t, r)'
            /\ LmAccounted'
            /\ lm' = lm]_vars

C5_Witness ==
  \E t \in Tx, u \in Tx :
     /\ last[t] = Call("Commit", 0, NoLock, "ok")
     /\ t \notin transactions
     /\ epoch[t] >= 1
     /\ pc[u] = "rmEdge"
     /\ lm[last[u].r].count = 1

\* C6 as claimed: a lock a transaction holds stops being held only when the
\* transaction itself ends.
C6_StrictTwoPhase ==
  [][\A t \in Tx, r \in Res :
       (Held(t, r) /\ ~Held(t, r)') =>
          (t \notin transactions' \/ pc'[t] = "commit")]_vars

\* C6 amended: as long as the process runs, a lock a transaction holds stops
\* being held only by that transaction's own Commit or by its own Unlock of
\* that resource in the recorded mode.
C6_ReleasedByOwner ==
  [][\A t \in Tx, r \in Res :
       (Held(t, r) /\ ~Held(t, r)' /\ pc'[t] # "fatal") =>
          \/ /\ pc[t] = "commit"
             /\ pc'[t] = "commit"
             /\ r \in ranged'[t]
             /\ lm'[r] = LmRelease(lm[r])
          \/ /\ last'[t] = Call("Unlock", r, HeldMode(t, r), "ok")
             /\ lm'[r] = LmRelease(lm[r])
             /\ t \in transactions'
             /\ \A q \in Res \ {r} : Held(t, q) => Held(t, q)']_vars

C6_Witness ==
  \E t \in Tx, r \in Res :
     /\ last[t].op = "Unlock" /\ last[t].res = "ok" /\ last[t].r = r
     /\ t \in transactions
     /\ resources[t][r] = NoLock
     /\ \E q \in Res : Granted(t, q)


(***************************************************************************)
(* Recovery: reading the log of a state.                                   *)
(***************************************************************************)
\* the log the crashed process left, and what Recover appended to it
log0 == SubSeq(rlog, 1, crashLen)
post == SubSeq(rlog, crashLen + 1, Len(rlog))

IsRec(logs, i, kind, id) == logs[i].k = kind /\ logs[i].id = id

\* record i is an edit made inside a transaction: a start record of its
\* client precedes it with no commit record of that client in between
InTx(logs, i) ==
  \E s \in 1..(i - 1) :
     /\ IsRec(logs, s, "start", logs[i].id)
     /\ \A c \in (s + 1)..(i - 1) : ~IsRec(logs, c, "commit", logs[i].id)

HasCommitAfter(logs, i) ==
  \E c \in (i + 1)..Len(logs) : IsRec(logs, c, "commit", logs[i].id)

LastCp(logs) == LastCheckpoint(logs, Len(logs))

\* the transactions C7 speaks of
CheckpointLoser(logs, T) ==
  /\ Len(logs) > 0
  /\ logs[LastCp(logs)].k = "checkpoint"
  /\ T \in logs[LastCp(logs)].ids
  /\ \A c \in 1..Len(logs) : ~IsRec(logs, c, "commit", T)

EditsOf(logs, T, from, to) ==
  {i \in from..to : IsRec(logs, i, "edit", T)}

\* the log record of the inverse of an edit record
InverseRec(e) ==
  editLog(e.id,
          IF e.action = INSERT_ACTION THEN DELETE_ACTION
          ELSE IF e.action = DELETE_ACTION THEN INSERT_ACTION
          ELSE UPDATE_ACTION,
          e.key, e.new, e.old)

\* the records of client T in logs, in order
RECURSIVE RecordsOf(_, _)
RecordsOf(logs, T) ==
  IF logs = <<>> THEN <<>>
  ELSE IF Head(logs).id = T /\ Head(logs).k \in {"edit", "start", "commit"}
  THEN <<Head(logs)>> \o RecordsOf(Tail(logs), T)
  ELSE RecordsOf(Tail(logs), T)

\* the inverses of T's edits at positions from..i of logs, newest first
RECURSIVE InversesDown(_, _, _, _)
InversesDown(logs, T, from, i) ==
  IF i < from THEN <<>>
  ELSE IF IsRec(logs, i, "edit", T)
  THEN <<InverseRec(logs[i])>> \o InversesDown(logs, T, from, i - 1)
  ELSE InversesDown(logs, T, from, i - 1)

\* the log of spec scenario 4, with the two keys and one client of the model
Scenario4(T) ==
  <<tableLog, startLog(T), editLog(T, INSERT_ACTION, 5, Absent, 100),
    checkpointLog({T}), editLog(T, INSERT_ACTION, 6, Absent, 200)>>

\* the table that the first n records of logs describe
RECURSIVE Replay(_, _)
Replay(logs, n) ==
  IF n = 0 THEN NoTable
  ELSE IF logs[n].k = "table" THEN EmptyDb
  ELSE IF logs[n].k = "edit" /\ Replay(logs, n - 1) # NoTable
  THEN [Replay(logs, n - 1) EXCEPT ![logs[n].key] = logs[n].new]
  ELSE Replay(logs, n - 1)

\* C7: after Recover, for a transaction T named in the last checkpoint and
\* without a commit record, the edits T logged before that checkpoint remain
\* and those logged after it are undone: every key T edited has the value
\* the log gives it at the checkpoint; on the log of scenario 4 key 5 maps
\* to 100 and key 6 is absent.
C7_CheckpointState ==
  phase = "done" =>
    \A T \in Client :
       CheckpointLoser(log0, T) =>
         /\ \A i \in EditsOf(log0, T, 1, Len(log0)) :
               db[log0[i].key] = Replay(log0, LastCp(log0))[log0[i].key]
         /\ log0 = Scenario4(T) => (db[5] = 100 /\ db[6] = Absent)

\* Recover has run on the log of scenario 4, with the table of the
\* checkpoint put back, and has left both keys absent
C7_Witness ==
  /\ phase = "done"
  /\ \E T \in Client :
        /\ log0 = Scenario4(T)
        /\ ckpt.disk = Replay(log0, LastCp(log0))
        /\ ckpt.disk[5] = 100
        /\ db = EmptyDb

\* C8: after Recover, every key whose last edit in the log was made by a
\* transaction that committed later, or outside any transaction, has the
\* value that edit wrote.
C8_WinnersSurvive ==
  phase = "done" =>
    \A i \in 1..Len(log0) :
       (/\ log0[i].k = "edit"
        /\ \A j \in (i + 1)..Len(log0) :
              ~(log0[j].k = "edit" /\ log0[j].key = log0[i].key)
        /\ (~InTx(log0, i) \/ HasCommitAfter(log0, i)))
       => db[log0[i].key] = log0[i].new

\* this step ends a Rollback call of client id: the call returns
RollbackReturns(id) ==
  /\ phase' = "run"
  /\ cl[id].rb
  /\ cl'[id].at = "idle"

\* this step is one of a Rollback call of client id, the first one or a
\* later one
RollbackWorks(id) ==
  /\ phase' = "run"
  /\ \/ cl[id].rb /\ cl[id].at # "blocked" /\ cl'[id] # cl[id]
     \/ cl[id].at = "idle" /\ cl'[id].rb

\* the transaction of client id was started with Start and is live
StartedLive(id) ==
  /\ id \in transactions
  /\ LET logs == IF cl[id].rb /\ cl[id].at # "rbRead" THEN cl[id].logs
                 ELSE txStack[id]
     IN logs # NoStack /\ logs[1] = nilLog

\* every edit of key k in logs was logged by client id: without the
\* transaction of id the key would have the value it had before it
OnlyEditor(logs, id, k) ==
  \A i \in 1..Len(logs) :
     (logs[i].k = "edit" /\ logs[i].key = k) => logs[i].id = id

\* C9: a Rollback of a live transaction that was started with Start leaves
\* the database as if the transaction had never begun: no step of the call
\* changes a key the transaction did not edit, and when the call returns
\* every key the transaction edited, and no other client ever, has its
\* value from before the transaction (a key it inserted is absent).
C9_RollbackRestores ==
  [][\A id \in Client :
       StartedLive(id) =>
         /\ RollbackWorks(id) =>
              \A k \in Key : preT[id][k] = Untouched => db'[k] = db[k]
         /\ RollbackReturns(id) =>
              \A k \in Key :
                 (preT[id][k] # Untouched /\ OnlyEditor(rlog', id, k))
                   => db'[k] = preT[id][k]]_vars

\* a Rollback of a started transaction has returned an error and the key
\* the transaction inserted is still in the table, in a run in which no
\* other client has logged an edit
C9_Witness ==
  \E id \in Client, k \in Key :
     /\ phase = "run"
     /\ rlast = <<"Rollback", id, "err">>
     /\ cl[id].at = "idle"
     /\ id \in transactions
     /\ txStack[id] # NoStack
     /\ txStack[id][1] = nilLog
     /\ preT[id][k] = Absent
     /\ \A q \in Key : OnlyEditor(rlog, id, q)
     /\ db[k] # Absent


(***************************************************************************)
(* B+-tree cursor properties.                                              *)
(***************************************************************************)
\* the keys of a set in increasing order
RECURSIVE Sorted(_)
Sorted(K) ==
  IF K = {} THEN <<>>
  ELSE LET m == CHOOSE x \in K : \A y \in K : x <= y
       IN <<m>> \o Sorted(K \ {m})

\* C10: a traversal from TableStart that has reached the end has seen
\* every inserted-and-not-deleted key exactly once, in increasing order.
C10_TraversalComplete ==
  trav = "done" => seen = Sorted(present)


\* C11: once StepForward has returned true the cursor is exhausted: IsEnd
\* reports true and a GetEntry call that follows returns an error.
C11_ExhaustedCursor ==
  [][ret = <<"StepForward", "true">> =>
       /\ IsEnd
       /\ ret'[1] = "GetEntry" => ret'[2] = "err"]_vars

\* ---------------------------------------------------------------------
\* Properties of the Grace hash join.
JoinColumn(e, onKey) == IF onKey THEN e.key ELSE e.value

NaturalJoin(c) ==
  {q \in [l : EntriesOf(c.l), r : EntriesOf(c.r)] :
     JoinColumn(q.l, c.lk) = JoinColumn(q.r, c.rk)}

\* Join has returned its channel, every probe has returned and the channel
\* is drained
JoinDrained ==
  /\ jcall.on
  /\ jcall.st = "ok"
  /\ \A n \in 1..Len(jprobes) : jprobes[n].st = "done"
  /\ jchan = <<>>

\* C12: when every probe has returned and the channel is drained, the pairs
\* received are exactly the natural join of the two source tables on the
\* chosen columns, each pair once and each side carrying the key and value
\* of its source entry.
C12_NaturalJoin ==
  JoinDrained =>
    /\ \A i, j \in 1..Len(jout) : jout[i] = jout[j] => i = j
    /\ {jout[i] : i \in 1..Len(jout)} = NaturalJoin(jcall)

\* ---------------------------------------------------------------------
\* C13: Begin of a live transaction returns an error and leaves the set of
\* transactions, every resource map and the lock manager unchanged; Begin of
\* a transaction that is not live succeeds and creates it with an empty
\* resource map.
C13_BeginFrame ==
  [][\A t \in Tx :
       Called(t, "Begin") =>
         IF t \in transactions
         THEN /\ last'[t].res = "err"
              /\ transactions' = transactions
              /\ resources' = resources
              /\ lm' = lm
              /\ epoch' = epoch
         ELSE /\ last'[t].res = "ok"
              /\ transactions' = transactions \cup {t}
              /\ resources'[t] = NoResources]_vars

\* a Begin of a live transaction that holds a lock has returned its error
C13_Witness ==
  \E t \in Tx, r \in Res :
     /\ last[t] = Call("Begin", 0, NoLock, "err")
     /\ t \in transactions
     /\ Granted(t, r)
     /\ lm[r].count = 1

\* ---------------------------------------------------------------------
\* C14: a Lock call on a resource the caller already holds, in the mode it
\* holds or in read mode while it holds write, returns success at once and
\* leaves every resource map, the lock manager and the waits-for graph
\* unchanged.
C14_Reacquire ==
  [][\A t \in Tx :
       (/\ Called(t, "Lock")
        /\ pc[t] = "idle"
        /\ Granted(t, last'[t].r)
        /\ (last'[t].m = resources[t][last'[t].r]
            \/ (last'[t].m = R_LOCK /\ resources[t][last'[t].r] = W_LOCK))) =>
         /\ last'[t].res = "ok"
         /\ pc'[t] = "idle"
         /\ resources' = resources
         /\ lm' = lm
         /\ pGraph' = pGraph]_vars

\* a read request on a resource the caller holds in write mode has returned
\* success while the other transaction holds a lock of its own
C14_Witness ==
  \E t \in Tx, u \in Tx, r \in Res, q \in Res :
     /\ t # u
     /\ last[t] = Call("Lock", r, R_LOCK, "ok")
     /\ pc[t] = "idle"
     /\ resources[t][r] = W_LOCK
     /\ lm[r].count = 1
     /\ Granted(u, q)

\* ---------------------------------------------------------------------
\* C15: Redo of an insert or update record returns no error and leaves the
\* key mapped to the record's new value whatever the table held before, and
\* redoing the same record again changes nothing; Redo of a delete record
\* is applied as it is: on an absent key it returns an error and leaves the
\* table unchanged, on a present key it removes it.  The record's table
\* exists.
C15_RedoIdempotent ==
  (redone.on /\ redone.log.k = "edit" /\ redone.before # NoTable) =>
    LET log == redone.log
        again == Redo(Here(<<>>), log)
    IN IF log.action \in {INSERT_ACTION, UPDATE_ACTION}
       THEN /\ ~redone.err
            /\ db = [redone.before EXCEPT ![log.key] = log.new]
            /\ ~again.err
            /\ again.db = db
       ELSE IF redone.before[log.key] = Absent
       THEN redone.err /\ db = redone.before
       ELSE ~redone.err /\ db = [redone.before EXCEPT ![log.key] = Absent]

\* an insert record has been redone on a table that held the key with
\* another value
C15_Witness ==
  /\ redone.on
  /\ redone.log.action = INSERT_ACTION
  /\ redone.before[redone.log.key] # Absent
  /\ redone.before[redone.log.key] # redone.log.new
  /\ db[redone.log.key] = redone.log.new

\* ---------------------------------------------------------------------
\* C16: at the step that appends the checkpoint record every pager's
\* all-updates lock is held by Checkpoint, and no page of any table has been
\* updated since that table was flushed.
C16_RecordUnderLocks ==
  [][ckRecs' # ckRecs =>
       \A tb \in CkTable : allUpdates[tb] /\ ~dirty[tb]]_vars

\* ---------------------------------------------------------------------
\* C17: once the join context is cancelled every probe goroutine terminates,
\* whether or not anybody receives from the results channel: a probe at a
\* send on a full channel returns the context error.
C17_CancelTerminates ==
  (jctx = "cancelled") ~>
     (\A n \in 1..Len(jprobes) : jprobes[n].st \in {"done", "ctxerr"})

\* the context is cancelled, nothing was received, the channel is full, and
\* a probe with pairs left to send has returned the context error
C17_Witness ==
  /\ jctx = "cancelled"
  /\ jout = <<>>
  /\ Len(jchan) = ChanCap
  /\ \E n \in 1..Len(jprobes) :
        jprobes[n].st = "ctxerr" /\ jprobes[n].todo # <<>>

\* ---------------------------------------------------------------------
\* Properties of the doubly linked list.
RECURSIVE WalkNext(_, _)
WalkNext(link, fuel) ==
  IF link = Nil \/ fuel = 0 THEN <<>>
  ELSE <<link>> \o WalkNext(links[link].next, fuel - 1)

RECURSIVE WalkPrev(_, _)
WalkPrev(link, fuel) ==
  IF link = Nil \/ fuel = 0 THEN <<>>
  ELSE <<link>> \o WalkPrev(links[link].prev, fuel - 1)

Reverse(q) == [i \in 1..Len(q) |-> q[Len(q) + 1 - i]]

ValuesOf(q) == [i \in 1..Len(q) |-> links[q[i]].value]

\* C18: the list stands for the sequence built by prepending for PushHead,
\* appending for PushTail and removing the element for PopSelf: the walk
\* over next from head yields it, the walk over prev from tail yields its
\* reverse, and PeekHead and PeekTail are its first and last element, nil
\* when it is empty.
C18_ListRefinesSeq ==
  /\ WalkNext(lhead, MaxLinks + 1) = lseq
  /\ WalkPrev(ltail, MaxLinks + 1) = Reverse(lseq)
  /\ PeekHead = (IF lseq = <<>> THEN Nil ELSE lseq[1])
  /\ PeekTail = (IF lseq = <<>> THEN Nil ELSE lseq[Len(lseq)])
  /\ \A i \in 1..Len(links) : links[i].list <=> \E j \in 1..Len(lseq) : lseq[j] = i

\* PushHead 1, 2, 3 and PushTail 4, 5, 6 were done and the link of 2 was
\* popped: head is 3, tail is 6
C18_Witness ==
  /\ Len(links) = 6
  /\ ~links[2].list
  /\ ValuesOf(lseq) = <<3, 1, 4, 5, 6>>
  /\ links[PeekHead].value = 3
  /\ links[PeekTail].value = 6

\* ---------------------------------------------------------------------
OutEdges(g, n) == {e \in g : e[1] = n}

\* C19: a Lock call that fails with the deadlock error leaves the
\* transaction live, every resource map and the lock manager unchanged, and
\* removes the edges it added: the caller had no outgoing edge when the call
\* started and has none when it returns, and no edge of another transaction
\* is touched.
C19_DeadlockFrame ==
  [][\A t \in Tx :
       /\ (pc[t] = "idle" /\ pc'[t] = "discover") =>
            OutEdges(pGraph, Node(t)) = {}
       /\ (last[t].res = "pending" /\ last'[t].res = "deadlock") =>
            /\ t \in transactions'
            /\ transactions' = transactions
            /\ resources' = resources
            /\ lm' = lm
            /\ pc'[t] = "idle"
            /\ OutEdges(pGraph', Node(t)) = {}
            /\ pGraph' \subseteq pGraph
            /\ pGraph \ pGraph' \subseteq OutEdges(pGraph, Node(t))]_vars

\* a request was refused with the deadlock error while the caller holds a
\* lock and the other transaction still waits for it
C19_Witness ==
  \E t \in Tx, u \in Tx, q \in Res :
     /\ last[t].op = "Lock"
     /\ last[t].res = "deadlock"
     /\ pc[t] = "idle"
     /\ Granted(t, q)
     /\ pc[u] = "blocked"
     /\ <<Node(u), Node(t)>> \in pGraph
     /\ OutEdges(pGraph, Node(t)) = {}

\* ---------------------------------------------------------------------
\* t is parked in the lock manager waiting for a resource that u has been
\* granted, and the two modes are not both read
BlockedOn(t, u) ==
  /\ t \in transactions
  /\ u \in transactions
  /\ pc[t] = "blocked"
  /\ Granted(u, last[t].r)
  /\ (last[t].m = W_LOCK \/ resources[u][last[t].r] = W_LOCK)

\* C20: the waits-for graph holds the edge T->U exactly when T and U are
\* live, T is blocked waiting for a resource and U holds that resource in a
\* mode incompatible with T's request; no edge leads to or from a
\* transaction that has committed.
C20_GraphExact ==
  /\ \A t \in Tx, u \in Tx :
        <<Node(t), Node(u)>> \in pGraph <=> (t # u /\ BlockedOn(t, u))
  /\ \A e \in pGraph :
        \E t \in transactions, u \in transactions : e = <<Node(t), Node(u)>>

\* ---------------------------------------------------------------------
\* a start record of id precedes position i with no commit record of id
\* between it and i
LiveAt(logs, i, id) ==
  \E s \in 1..(i - 1) :
     /\ IsRec(logs, s, "start", id)
     /\ \A c \in (s + 1)..(i - 1) : ~IsRec(logs, c, "commit", id)

\* C21: the ids of every checkpoint record are exactly the transactions
\* with a start record and no later commit record before the checkpoint.
C21_CheckpointIds ==
  \A i \in 1..Len(rlog) :
     rlog[i].k = "checkpoint" =>
       rlog[i].ids = {id \in Client : LiveAt(rlog, i, id)}

\* ---------------------------------------------------------------------
\* T is a loser of the log: named in the last checkpoint or started after
\* it, and without a commit record
Loser(logs, T) ==
  /\ Len(logs) > 0
  /\ \/ logs[LastCp(logs)].k = "checkpoint" /\ T \in logs[LastCp(logs)].ids
     \/ \E s \in LastCp(logs)..Len(logs) : IsRec(logs, s, "start", T)
  /\ \A c \in 1..Len(logs) : ~IsRec(logs, c, "commit", T)

CommitsOf(logs, T) == {c \in 1..Len(logs) : IsRec(logs, c, "commit", T)}

\* C22: when Recover has returned, the records it appended for a loser are
\* the inverses of the loser's edits followed by exactly one commit record,
\* the transaction manager has no live transaction, and Recover appended no
\* commit record for a transaction that already had one in the log.
C22_CompensatingCommit ==
  phase = "done" =>
    /\ transactions = {}
    /\ \A T \in Client :
          /\ Loser(log0, T) =>
               /\ Cardinality(CommitsOf(post, T)) = 1
               /\ RecordsOf(post, T) =
                    InversesDown(log0, T, 1, Len(log0)) \o <<commitLog(T)>>
          /\ CommitsOf(log0, T) # {} => CommitsOf(post, T) = {}

\* ---------------------------------------------------------------------
\* the last record of client id in logs is a commit record
CommitLogged(logs, id) ==
  /\ RecordsOf(logs, id) # <<>>
  /\ RecordsOf(logs, id)[Len(RecordsOf(logs, id))].k = "commit"

\* C23: when a Rollback of a live transaction returns, with success or with
\* the error of an inverse edit, the transaction's commit record is logged,
\* its record stack is dropped and it is ended in the transaction manager
\* with no lock left; a Rollback of an unknown transaction returns an error
\* and writes nothing.
C23_RollbackDestroys ==
  [][\A id \in Client :
       RollbackReturns(id) =>
         /\ id \in transactions =>
              /\ rlast'[3] \in {"ok", "err"}
              /\ CommitLogged(rlog', id)
              /\ txStack'[id] = NoStack
              /\ id \notin transactions'
              /\ resources'[id] = NoResources
         /\ (id \notin transactions /\ cl[id].at = "rbRead"
               /\ txStack[id] = NoStack) =>
              /\ rlast'[3] = "notfound"
              /\ rlog' = rlog
              /\ db' = db]_vars

\* ---------------------------------------------------------------------
\* the read latches held are one latch on the cursor's current leaf
HoldsCurrentLeaf ==
  rdLatch = [pn \in 1..Len(rdLatch) |-> IF pn = cursor.curNode THEN 1 ELSE 0]

HoldsNoLatch == \A pn \in 1..Len(rdLatch) : rdLatch[pn] = 0

\* C24: a cursor returned by TableStart, TableEnd or TableFind, and one that
\* StepForward has moved without exhausting it, holds the read latch of
\* exactly its current leaf; an exhausted cursor holds no latch; and no
\* StepForward call releases a latch that is not held.
C24_LatchAccounting ==
  /\ cstate # "crashed"
  /\ (cursor.open /\ ret[1] \in {"TableStart", "TableEnd", "TableFind"})
        => HoldsCurrentLeaf
  /\ ret = <<"StepForward", "false">> => HoldsCurrentLeaf
  /\ ret = <<"StepForward", "true">> => HoldsNoLatch

\* ---------------------------------------------------------------------
\* C25: TableFindRange(startKey, endKey) returns without an error, in
\* increasing key order, exactly the keys k of the table with
\* startKey <= k < endKey, also when endKey is above the largest key and
\* when startKey is above every key.
C25_RangeScan ==
  ret[1] = "TableFindRange" =>
    /\ ret[2] = "ok"
    /\ ret[3] = Sorted({k \in present : ret[4] <= k /\ k < ret[5]})

\* ---------------------------------------------------------------------
\* C26: a Lock or Unlock call that holds tmMtx for reading and is about to
\* take it for reading again in GetTransaction gets through and returns,
\* also when Begin or Commit asks for the write side in between.
C26_NoSelfDeadlock ==
  \A g \in Thread : (mpc[g].at = "inner") ~> (mpc[g] = Idle)

\* ---------------------------------------------------------------------
\* C27: GetEntry on a cursor that is not at its end returns: it does not
\* wait forever for the write latch of the leaf the cursor has read-latched.
C27_GetEntryReturns ==
  ret[1] = "GetEntry" => cstate # "blocked"

\* ---------------------------------------------------------------------
\* C28: buildHashIndex over a B+-tree cursor returns, and has then inserted
\* every entry of the source table exactly once, in key order.
C28_BuildTerminates ==
  ret[1] = "buildHashIndex" =>
    /\ ret[2] = "ok"
    /\ ret[3] = Sorted(present)

\* ---------------------------------------------------------------------
\* C29: while a cursor points at a leaf, after TableStart, TableEnd or
\* TableFind returned it and after every StepForward that did not exhaust
\* it, that leaf's page is pinned.
C29_CurrentLeafPinned ==
  ((cursor.open /\ ret[1] \in {"TableStart", "TableEnd", "TableFind"})
     \/ ret = <<"StepForward", "false">>)
    => pins[cursor.curNode] > 0

\* ---------------------------------------------------------------------
\* C30: after every step of the filter, Contains is true for every key
\* that was inserted, a Contains call on an inserted key has returned
\* true, and a key for which Contains was true before the step is still
\* one for which it is true.
C30_NoFalseNegative ==
  [][/\ \A key \in bkeys' : Contains(bits', key)
     /\ bret'[1] \in bkeys' => bret'[2]
     /\ \A key \in BloomKey : Contains(bits, key) => Contains(bits', key)]_vars

\* two keys inserted with different bits, and a Contains call that
\* answered true for one of them
C30_Witness ==
  /\ Cardinality(bkeys) >= 2
  /\ Cardinality(bits) >= 2
  /\ bret[1] \in bkeys
  /\ bret[2]

====
